---- MODULE Spec2Model ----
(***************************************************************************)
(* Model of package lsystems (ybeaudoin/go-lsystems): the three rewrite    *)
(* engines Deterministic, Stochastic and HogewegHesper, which leave their  *)
(* result in the package variable TurtleCmds, and of the turtle            *)
(* interpretation of TurtleCmds by Plot (gnuplot) and HpglPlot (HP-GL/2),  *)
(* and of a list of strings side by side by MultiPlot and HpglMultiPlot,   *)
(* which run with the coroutine calcXoffset.                               *)
(*                                                                         *)
(* A Go string is modelled as a sequence of one-character strings.  A call *)
(* of halt (log.Fatalln) ends the process: status "halted".  A run-time    *)
(* panic (index out of range) ends it too: status "panic".                 *)
(***************************************************************************)
EXTENDS Integers, Sequences, FiniteSets, TLC

(* The parameter rules has a different type in each engine, so it is held  *)
(* in three variables: replacer (Deterministic, a *strings.Replacer),      *)
(* rules (Stochastic, a []string) and ruleMap (HogewegHesper, a            *)
(* map[string]string).                                                     *)
VARIABLES TurtleCmds, status, engine, order, axiom, replacer, rules, ruleMap,
          weights, selectors, n, rng, seed, msg

(* The locals of a turtle interpretation (the closures made by             *)
(* makeLogo2Gnuplot and makeLogo2Hpgl): the production angle, the read     *)
(* position (pos in the source, counted from 0 as in Go), the turtle, the  *)
(* stack of saved turtles, the bounding box xMin, xMax, yMin, yMax, the    *)
(* primitives emitted so far plotCmds, and the state of the converter:     *)
(* polygon (makeConvert2Gnuplot) and penCmdPrev (makeConvert2Hpgl).        *)
VARIABLES angle, position, turtle, stack, xMin, xMax, yMin, yMax, plotCmds,
          polygon, penCmdPrev

(* The locals of MultiPlot and HpglMultiPlot: the arguments turtleCmds,     *)
(* turtleAngles and labels, the loop index subplotK (k in the source,       *)
(* counted from 0), the loop's copy subplotV (v in the source) of          *)
(* turtleCmds[k], which the closure interprets, xOrigin, and canvas, the   *)
(* commands gathered for all subplots (plotCmds of MultiPlot).             *)
VARIABLES turtleCmds, turtleAngles, labels, subplotK, subplotV, xOrigin,
          canvas

(* The coroutine calcXoffset: where it stands (xoStatus) and its locals    *)
(* turtleCmds, angle, turtle, stack, xMin and pos.                         *)
VARIABLES xoStatus, xoCmds, xoAngle, xoTurtle, xoStack, xoMin, xoPos

(* Two history variables, which no action reads.  derived is the string    *)
(* the last call of a rewrite engine left in TurtleCmds (in PlotSpec, the  *)
(* string TurtleCmds holds when the plots begin).  interpreted is the      *)
(* sequence of the symbols the closure under way has interpreted so far, a *)
(* heading declaration with its text; the production variables it removed  *)
(* are not among them.                                                     *)
VARIABLES derived, interpreted

(* A third history variable: the channels on which the call under way and  *)
(* its coroutine have communicated so far, one name for each value handed  *)
(* over, in order.                                                         *)
VARIABLES handoffs

(* A fourth one: the x ordinates of the turtle of the interpretation under *)
(* way, from the one it started at to the one it is at.                    *)
VARIABLES visitedX

(* A fifth one: the symbols calcXoffset has walked over for the request    *)
(* under way, in order; the variables it deleted are not among them.       *)
VARIABLES walked

(* Two counters: the turns the loop of the interpretation under way has    *)
(* taken, and the turns the loop of calcXoffset has taken for the request  *)
(* under way.                                                              *)
VARIABLES turns, xoTurns

(* HogewegHesper step by step, with its two coroutines.  chan4LHS and      *)
(* chan4RHS are the two channels, which hold nothing (they are unbuffered) *)
(* and are "none" before make, then "open", then "closed"; hhPc is the     *)
(* statement the main routine is at, hhPos its pos, newCmds its newCmds    *)
(* and contextLHS the left context it has received; coLHS and coRHS are    *)
(* the coroutines getContextLHS and getContextRHS: the statement they are  *)
(* at, the string they received and the context they found.                *)
VARIABLES chan4LHS, chan4RHS, hhPc, hhPos, newCmds, contextLHS, coLHS, coRHS

hhVars ==
    <<chan4LHS, chan4RHS, hhPc, hhPos, newCmds, contextLHS, coLHS, coRHS>>

engineVars == <<order, axiom, replacer, rules, ruleMap, weights, selectors, n>>

multiVars ==
    <<turtleCmds, turtleAngles, labels, subplotK, subplotV, xOrigin, canvas>>

xoVars == <<xoStatus, xoCmds, xoAngle, xoTurtle, xoStack, xoMin, xoPos>>

plotVars == <<angle, position, turtle, stack, xMin, xMax, yMin, yMax, plotCmds,
              polygon, penCmdPrev>>

vars == <<TurtleCmds, status, engine, order, axiom, replacer, rules, ruleMap,
          weights, selectors, n, rng, seed, msg, angle, position, turtle,
          stack,
          xMin, xMax, yMin, yMax, plotCmds, polygon, penCmdPrev,
          turtleCmds, turtleAngles, labels, subplotK, subplotV, xOrigin,
          canvas,
          xoStatus, xoCmds, xoAngle, xoTurtle, xoStack, xoMin, xoPos,
          derived, interpreted, handoffs, visitedX, walked, turns,
          xoTurns,
          chan4LHS, chan4RHS, hhPc, hhPos, newCmds, contextLHS, coLHS, coRHS>>

(* ------------------------------ bounds --------------------------------- *)
MaxOrder == 2
MaxAxiomLen == 2
RngModulus == 2

(* ------------------------------ helpers -------------------------------- *)
StringsUpTo(A, k) == UNION {[1..m -> A] : m \in 0..k}

Min(S) == CHOOSE x \in S : \A y \in S : x <= y

Max(S) == CHOOSE x \in S : \A y \in S : x >= y

Range(s) == {s[i] : i \in 1..Len(s)}

RECURSIVE Flatten(_)
Flatten(ss) == IF ss = <<>> THEN <<>> ELSE Head(ss) \o Flatten(Tail(ss))

IsPrefix(k, s) == Len(k) <= Len(s) /\ SubSeq(s, 1, Len(k)) = k

Drop(s, k) == SubSeq(s, k + 1, Len(s))

RECURSIVE Count(_, _)
Count(s, c) ==
    IF s = <<>> THEN 0
    ELSE (IF Head(s) = c THEN 1 ELSE 0) + Count(Tail(s), c)

RECURSIVE Sum(_)
Sum(s) == IF s = <<>> THEN 0 ELSE Head(s) + Sum(Tail(s))

(* ------------------------- strings.Replacer ---------------------------- *)
(* A Replacer built by strings.NewReplacer(old1, new1, old2, new2, ...) is *)
(* the sequence of its <<old, new>> pairs.  Replace scans the string from  *)
(* the left; at each position the first pair in argument order whose old   *)
(* string matches there is applied and the scan resumes after the match;   *)
(* where no pair matches the character is copied.                          *)
Lookup(pairs, s) ==
    LET M == {i \in 1..Len(pairs) : IsPrefix(pairs[i][1], s)}
    IN  IF M = {} THEN 0 ELSE Min(M)

(* a different rewriting: the pairs applied one after the other, each over  *)
(* the whole string the previous one left                                  *)
RECURSIVE ReplaceAllOf(_, _, _)
ReplaceAllOf(old, new, s) ==
    IF s = <<>> THEN <<>>
    ELSE IF IsPrefix(old, s)
         THEN new \o ReplaceAllOf(old, new, Drop(s, Len(old)))
         ELSE <<Head(s)>> \o ReplaceAllOf(old, new, Tail(s))

RECURSIVE ReplaceChained(_, _)
ReplaceChained(pairs, s) ==
    IF pairs = <<>> THEN s
    ELSE ReplaceChained(Tail(pairs),
                        ReplaceAllOf(pairs[1][1], pairs[1][2], s))

RECURSIVE Replace(_, _)
Replace(pairs, s) ==
    IF s = <<>> THEN <<>>
    ELSE LET i == Lookup(pairs, s)
         IN  IF i = 0
             THEN <<Head(s)>> \o Replace(pairs, Tail(s))
             ELSE pairs[i][2] \o Replace(pairs, Drop(s, Len(pairs[i][1])))

(* ------------------------------ inputs --------------------------------- *)
Orders == -1..MaxOrder

PlainAxioms == StringsUpTo({"F", "X", "+"}, MaxAxiomLen)

Replacers ==
    { << <<(<<"F">>), <<"F", "F">> >> >>,
      << <<(<<"X">>), <<"X", "Y">> >>, <<(<<"Y">>), <<"F", "X">> >> >>,
      << <<(<<"F", "+">>), <<"X">> >>, <<(<<"F">>), <<"+", "F">> >> >>,
      << <<(<<"F">>), <<>> >> >> }

HHAlphabet == {"0", "1", "[", "]", "+", "-", "F", "$", "X"}

(* axioms of the examples (demo3.go, examples3.go), and strings with nested *)
(* branches, unbalanced brackets and an unsupported symbol                 *)
HHSamples ==
    { <<"$", "F", "1", "F", "1", "F", "1">>,
      <<"$", "F", "0", "F", "1", "F", "1">>,
      <<"0", "[", "1", "]", "1">>,
      <<"1", "[", "0", "[", "1", "]", "]", "0">>,
      <<"1", "[", "0", "]", "[", "1", "]", "0">>,
      <<"1", "1", "1">>,
      <<"0", "1", "0">>,
      <<"1", "0", "0">>,
      <<"1", "-", "0", "+", "1">>,
      <<"0", "[", "X", "]", "1">>,
      <<"0", "X">>,
      <<"X", "0">>,
      <<"]", "0">>,
      <<"0", "[">>,
      <<"]", "0", "X">>,
      <<"0", "1", "[">>,
      <<"1", "0", "1", "0", "1", "1">>,
      <<"-", "1", "-", "F", "0", "+", "1", "$", "+">>,
      <<"0", "[", "X">> }

HHAxioms == {<<>>} \cup {<<c>> : c \in HHAlphabet} \cup HHSamples

K(l, a, r) == <<l, " ", "<", " ", a, " ", ">", " ", r>>

(* the rule table of examples/demo3.go *)
HHDemo3 ==
    (K("0", "0", "0") :> <<"1">>) @@
    (K("0", "0", "1") :> <<"1", "[", "-", "F", "1", "F", "1", "]">>) @@
    (K("0", "1", "0") :> <<"1">>) @@
    (K("0", "1", "1") :> <<"1">>) @@
    (K("1", "0", "0") :> <<"0">>) @@
    (K("1", "0", "1") :> <<"1", "F", "1">>) @@
    (K("1", "1", "0") :> <<"1">>) @@
    (K("1", "1", "1") :> <<"0">>)

HHNest ==
    (K("1", "1", "1") :> <<"1", "[", "0", "[", "1", "]", "]", "1">>) @@
    (K("1", "0", "1") :> <<"0", "[", "1", "]">>) @@
    (K("0", "1", "0") :> <<"0">>)

HHTables ==
    { <<>>, HHDemo3, HHNest,
      (<<"0", "<", "1", ">", "0">> :> <<"1">>),
      (K("0", "2", "0") :> <<"1">>),
      (K("0", "1", "0") :> <<>>) }

(* ------------------------------ numbers -------------------------------- *)
(* A coordinate is a number (a + b*sqrt(3))/2 with integers a and b, held  *)
(* as the pair <<a, b>>: these are the values the turtle reaches with unit *)
(* strides when every heading is a multiple of 30 degrees.  Go computes    *)
(* them in float64; here they are the exact reals.                         *)
Zero == <<0, 0>>

One == <<2, 0>>

Plus(x, y) == <<x[1] + y[1], x[2] + y[2]>>

Minus(x, y) == <<x[1] - y[1], x[2] - y[2]>>

(* the sign of (a + b*sqrt(3))/2 *)
Sign(x) ==
    LET a == x[1]
        b == x[2]
    IN  IF a = 0 /\ b = 0 THEN 0
        ELSE IF a >= 0 /\ b >= 0 THEN 1
        ELSE IF a <= 0 /\ b <= 0 THEN -1
        ELSE IF a > 0 THEN (IF a * a > 3 * b * b THEN 1 ELSE -1)
        ELSE (IF 3 * b * b > a * a THEN 1 ELSE -1)

Less(x, y) == Sign(Minus(y, x)) = 1

(* math.Min, math.Max *)
MathMin(x, y) == IF Less(y, x) THEN y ELSE x

MathMax(x, y) == IF Less(x, y) THEN y ELSE x

(* math.Abs *)
MathAbs(x) == IF Sign(x) = -1 THEN Minus(Zero, x) ELSE x

(* math.Mod(h, m) for whole numbers: the result has the sign of h *)
MathMod(h, m) == IF h >= 0 THEN h % m ELSE 0 - ((0 - h) % m)

(* math.Cos and math.Sin of a heading in degrees that is a multiple of 30 *)
MathCos(h) ==
    LET m == h % 360
    IN  CASE m = 0 -> <<2, 0>>
          [] m = 30 -> <<0, 1>>
          [] m = 60 -> <<1, 0>>
          [] m = 90 -> <<0, 0>>
          [] m = 120 -> <<-1, 0>>
          [] m = 150 -> <<0, -1>>
          [] m = 180 -> <<-2, 0>>
          [] m = 210 -> <<0, -1>>
          [] m = 240 -> <<-1, 0>>
          [] m = 270 -> <<0, 0>>
          [] m = 300 -> <<1, 0>>
          [] m = 330 -> <<0, 1>>

MathSin(h) == MathCos(h - 90)

_turtleStatus(h, x, y) == [HEADING |-> h, X |-> x, Y |-> y]

(* no turtle interpretation is under way *)
NoPlot ==
    /\ angle = 0
    /\ position = 0
    /\ turtle = _turtleStatus(0, Zero, Zero)
    /\ stack = <<>>
    /\ xMin = Zero
    /\ xMax = Zero
    /\ yMin = Zero
    /\ yMax = Zero
    /\ plotCmds = <<>>
    /\ polygon = <<>>
    /\ penCmdPrev = ""

(* no multi-plot is under way and the coroutine calcXoffset does not run *)
NoMulti ==
    /\ turtleCmds = <<>>
    /\ turtleAngles = <<>>
    /\ labels = <<>>
    /\ subplotK = 0
    /\ subplotV = <<>>
    /\ xOrigin = Zero
    /\ canvas = <<>>
    /\ xoStatus = "off"
    /\ xoCmds = <<>>
    /\ xoAngle = 0
    /\ xoTurtle = _turtleStatus(0, Zero, Zero)
    /\ xoStack = <<>>
    /\ xoMin = Zero
    /\ xoPos = 0

(* a coroutine that was not launched *)
CoOff == [pc |-> "off", arg |-> <<>>, context |-> <<>>]

(* no call of HogewegHesper is under way and no coroutine is left *)
NoHandoff ==
    /\ chan4LHS = "none"
    /\ chan4RHS = "none"
    /\ hhPc = "off"
    /\ hhPos = 0
    /\ newCmds = <<>>
    /\ contextLHS = <<>>
    /\ coLHS = CoOff
    /\ coRHS = CoOff

(* ----------------------------- the state ------------------------------- *)
(* the locals of a call are gone once it has returned or the process has   *)
(* ended                                                                   *)
NoLocals ==
    /\ order' = 0
    /\ axiom' = <<>>
    /\ replacer' = <<>>
    /\ rules' = <<>>
    /\ ruleMap' = <<>>
    /\ weights' = <<>>
    /\ selectors' = <<>>
    /\ n' = 0
    /\ angle' = 0
    /\ position' = 0
    /\ turtle' = _turtleStatus(0, Zero, Zero)
    /\ stack' = <<>>
    /\ xMin' = Zero
    /\ xMax' = Zero
    /\ yMin' = Zero
    /\ yMax' = Zero
    /\ plotCmds' = <<>>
    /\ polygon' = <<>>
    /\ penCmdPrev' = ""
    /\ turtleCmds' = <<>>
    /\ turtleAngles' = <<>>
    /\ labels' = <<>>
    /\ subplotK' = 0
    /\ subplotV' = <<>>
    /\ xOrigin' = Zero
    /\ canvas' = <<>>
    /\ xoStatus' = "off"
    /\ xoCmds' = <<>>
    /\ xoAngle' = 0
    /\ xoTurtle' = _turtleStatus(0, Zero, Zero)
    /\ xoStack' = <<>>
    /\ xoMin' = Zero
    /\ xoPos' = 0

Init ==
    /\ TurtleCmds = <<>>
    /\ status = "idle"
    /\ engine = "none"
    /\ order = 0
    /\ axiom = <<>>
    /\ replacer = <<>>
    /\ rules = <<>>
    /\ ruleMap = <<>>
    /\ weights = <<>>
    /\ selectors = <<>>
    /\ n = 0
    /\ seed \in 0..(RngModulus - 1)
    /\ rng = seed
    /\ msg = ""
    /\ NoPlot
    /\ NoMulti
    /\ derived = TurtleCmds
    /\ interpreted = <<>>
    /\ handoffs = <<>>
    /\ visitedX = {}
    /\ walked = <<>>
    /\ turns = 0
    /\ xoTurns = 0
    /\ NoHandoff

(* halt(msg): log.Fatalln writes the caller's name and msg, and the        *)
(* process exits; nothing the call computed survives                       *)
halt(e, m) ==
    /\ status' = "halted"
    /\ engine' = e
    /\ msg' = m
    /\ NoLocals
    /\ UNCHANGED <<TurtleCmds, rng, seed>>

(* a run-time panic (index out of range) ends the process with the call    *)
(* unfinished: TurtleCmds keeps the last completed generation              *)
panic ==
    /\ status' = "panic"
    /\ msg' = "index out of range"
    /\ NoLocals
    /\ UNCHANGED <<TurtleCmds, engine>>

(* ---------------------------- Deterministic ---------------------------- *)
(* the message of the first check that fails, "" when none does *)
DeterministicCheck(o, a) ==
    IF o < 0 THEN "curve order must be non-negative"
    ELSE IF a = <<>> THEN "axiom was not specified"
    ELSE ""

DeterministicCall(o, a, r) ==
    /\ status = "idle"
    /\ IF DeterministicCheck(o, a) # ""
       THEN halt("Deterministic", DeterministicCheck(o, a))
       ELSE /\ engine' = "Deterministic"
            /\ order' = o
            /\ axiom' = a
            /\ replacer' = r
            /\ rules' = <<>>
            /\ ruleMap' = <<>>
            /\ weights' = <<>>
            /\ selectors' = <<>>
            /\ TurtleCmds' = a
            /\ n' = 1
            /\ status' = "running"
            /\ UNCHANGED <<rng, seed, msg>>
            /\ UNCHANGED <<plotVars, multiVars, xoVars>>
    /\ derived' = TurtleCmds'
    /\ interpreted' = <<>>
    /\ handoffs' =
          IF status' \in {"idle", "halted", "panic"} THEN <<>>
          ELSE handoffs
    /\ visitedX' =
          IF status' # "plotting" THEN {}
          ELSE (IF status = "plotting" THEN visitedX ELSE {})
                  \cup {turtle'.X}
    /\ walked' =
          IF status' \in {"idle", "halted", "panic"} THEN <<>>
          ELSE walked
    /\ turns' =
          IF status = "plotting" /\ status' = "plotting" THEN turns
          ELSE 0
    /\ xoTurns' =
          IF status' \in {"idle", "halted", "panic"} THEN 0
          ELSE xoTurns
    /\ UNCHANGED hhVars

(* the same loop started at n = 0 *)
DeterministicGenFromZero ==
    /\ status = "running"
    /\ engine = "Deterministic"
    /\ n - 1 <= order
    /\ TurtleCmds' = Replace(replacer, TurtleCmds)
    /\ n' = n + 1
    /\ UNCHANGED <<status, engine, order, axiom, replacer, rules, ruleMap,
                   weights, selectors, rng, seed, msg>>
    /\ UNCHANGED <<plotVars, multiVars, xoVars>>
    /\ derived' = TurtleCmds'
    /\ interpreted' = <<>>
    /\ handoffs' =
          IF status' \in {"idle", "halted", "panic"} THEN <<>>
          ELSE handoffs
    /\ visitedX' =
          IF status' # "plotting" THEN {}
          ELSE (IF status = "plotting" THEN visitedX ELSE {})
                  \cup {turtle'.X}
    /\ walked' =
          IF status' \in {"idle", "halted", "panic"} THEN <<>>
          ELSE walked
    /\ turns' =
          IF status = "plotting" /\ status' = "plotting" THEN turns
          ELSE 0
    /\ xoTurns' =
          IF status' \in {"idle", "halted", "panic"} THEN 0
          ELSE xoTurns
    /\ UNCHANGED hhVars

DeterministicGen ==
    /\ status = "running"
    /\ engine = "Deterministic"
    /\ n <= order
    /\ TurtleCmds' = Replace(replacer, TurtleCmds)
    /\ n' = n + 1
    /\ UNCHANGED <<status, engine, order, axiom, replacer, rules, ruleMap,
                   weights, selectors, rng, seed, msg>>
    /\ UNCHANGED <<plotVars, multiVars, xoVars>>
    /\ derived' = TurtleCmds'
    /\ interpreted' = <<>>
    /\ handoffs' =
          IF status' \in {"idle", "halted", "panic"} THEN <<>>
          ELSE handoffs
    /\ visitedX' =
          IF status' # "plotting" THEN {}
          ELSE (IF status = "plotting" THEN visitedX ELSE {})
                  \cup {turtle'.X}
    /\ walked' =
          IF status' \in {"idle", "halted", "panic"} THEN <<>>
          ELSE walked
    /\ turns' =
          IF status = "plotting" /\ status' = "plotting" THEN turns
          ELSE 0
    /\ xoTurns' =
          IF status' \in {"idle", "halted", "panic"} THEN 0
          ELSE xoTurns
    /\ UNCHANGED hhVars

RECURSIVE DeterministicResult(_, _, _)
DeterministicResult(o, a, r) ==
    IF o = 0 THEN a ELSE Replace(r, DeterministicResult(o - 1, a, r))

(* ------------------------------ math/rand ------------------------------ *)
(* The package-level generator of math/rand: a deterministic generator     *)
(* whose hidden state is set once, by rand.Seed in init, and advances by   *)
(* one on every draw.  Intn(g, m) is the value rand.Intn(m) returns in     *)
(* state g, a number in 0..m-1.                                            *)
Intn(g, m) == g % m

NextRng(g) == (g + 1) % RngModulus

RECURSIVE Advance(_, _)
Advance(g, k) == IF k = 0 THEN g ELSE Advance(NextRng(g), k - 1)

(* ------------------------------ Stochastic ----------------------------- *)
StochasticConfigs ==
    { << << <<"F", "F">> >>, <<1>> >>,
      << << <<"F", "X">> >>, <<1>> >>,
      << << <<>> >>, <<1>> >>,
      << << <<"F", "F">>, <<"X">> >>, <<1, 2>> >>,
      << << <<"F", "+">>, <<"X", "F">> >>, <<1, 1>> >>,
      << << <<"F", "F">>, <<"X">>, <<"+">> >>, <<3, 4, 4>> >>,
      << << <<"F", "F">> >>, <<1, 1>> >>,
      << << <<"F", "F">> >>, <<1, 0>> >>,
      << <<>>, <<1>> >>,
      << << <<"F", "F">> >>, <<>> >>,
      << << <<"F", "F">>, <<"X">> >>, <<1>> >>,
      << << <<"F", "F">>, <<"X">>, <<"+">> >>, <<1, 0, 0>> >>,
      << << <<"F", "F">> >>, <<-1>> >> }

(* the weight check written as v >= 0 *)
StochasticCheckNonNegative(o, a, r, w) ==
    IF o < 0 THEN "curve order must be non-negative"
    ELSE IF a = <<>> THEN "axiom was not specified"
    ELSE IF Len(r) = 0 THEN "rules were not specified"
    ELSE IF Len(w) = 0 THEN "weights were not specified"
    ELSE IF Len(w) < Len(r)
         THEN "fewer weights specified than the number of rules"
    ELSE IF \E k \in 1..Len(w) : ~(w[k] >= 0) THEN "weights must be postive"
    ELSE ""

StochasticCheck(o, a, r, w) ==
    IF o < 0 THEN "curve order must be non-negative"
    ELSE IF a = <<>> THEN "axiom was not specified"
    ELSE IF Len(r) = 0 THEN "rules were not specified"
    ELSE IF Len(w) = 0 THEN "weights were not specified"
    ELSE IF Len(w) < Len(r)
         THEN "fewer weights specified than the number of rules"
    ELSE IF \E k \in 1..Len(w) : ~(w[k] > 0) THEN "weights must be postive"
    ELSE ""

(* the lottery table: index k (counted from 0, as in Go) is appended v     *)
(* times for the k-th weight v, over all the weights, in order             *)
RECURSIVE Repeat(_, _)
Repeat(x, k) == IF k <= 0 THEN <<>> ELSE <<x>> \o Repeat(x, k - 1)

(* the inner loop written as n < v: one ball too few for each rule *)
RECURSIVE BuildSelectorsShort(_, _)
BuildSelectorsShort(w, k) ==
    IF k > Len(w) THEN <<>>
    ELSE Repeat(k - 1, w[k] - 1) \o BuildSelectorsShort(w, k + 1)

RECURSIVE BuildSelectors(_, _)
BuildSelectors(w, k) ==
    IF k > Len(w) THEN <<>>
    ELSE Repeat(k - 1, w[k]) \o BuildSelectors(w, k + 1)

(* one generation: the inner loop over the symbols of cmds.  The result    *)
(* gives the successor string, the generator state after the draws made,   *)
(* and whether rules[...] was indexed out of range (a run-time panic).     *)
(* the draw hoisted out of the loop over the symbols: one draw for a whole  *)
(* generation                                                              *)
RECURSIVE CopyWithRule(_, _)
CopyWithRule(s, rule) ==
    IF s = <<>> THEN <<>>
    ELSE (IF Head(s) = "F" THEN rule ELSE <<Head(s)>>)
             \o CopyWithRule(Tail(s), rule)

StochasticSweepOneDraw(s, r, sel, g) ==
    LET k == sel[Intn(g, Len(sel)) + 1]
    IN  IF k >= Len(r)
        THEN [cmds |-> <<>>, rng |-> NextRng(g), panic |-> TRUE]
        ELSE [cmds |-> CopyWithRule(s, r[k + 1]), rng |-> NextRng(g),
              panic |-> FALSE]

(* the rewritten F kept in front of its replacement *)
RECURSIVE StochasticSweepKeepF(_, _, _, _)
StochasticSweepKeepF(s, r, sel, g) ==
    IF s = <<>> THEN [cmds |-> <<>>, rng |-> g, panic |-> FALSE]
    ELSE IF Head(s) = "F"
         THEN LET k == sel[Intn(g, Len(sel)) + 1]
              IN  IF k >= Len(r)
                  THEN [cmds |-> <<>>, rng |-> NextRng(g), panic |-> TRUE]
                  ELSE LET rest == StochasticSweepKeepF(Tail(s), r, sel,
                                                        NextRng(g))
                       IN  [cmds |-> <<"F">> \o r[k + 1] \o rest.cmds,
                            rng |-> rest.rng, panic |-> rest.panic]
         ELSE LET rest == StochasticSweepKeepF(Tail(s), r, sel, g)
              IN  [cmds |-> <<Head(s)>> \o rest.cmds,
                   rng |-> rest.rng, panic |-> rest.panic]

RECURSIVE StochasticSweep(_, _, _, _)
StochasticSweep(s, r, sel, g) ==
    IF s = <<>> THEN [cmds |-> <<>>, rng |-> g, panic |-> FALSE]
    ELSE IF Head(s) = "F"
         THEN LET k == sel[Intn(g, Len(sel)) + 1]
              IN  IF k >= Len(r)
                  THEN [cmds |-> <<>>, rng |-> NextRng(g), panic |-> TRUE]
                  ELSE LET rest == StochasticSweep(Tail(s), r, sel, NextRng(g))
                       IN  [cmds |-> r[k + 1] \o rest.cmds,
                            rng |-> rest.rng, panic |-> rest.panic]
         ELSE LET rest == StochasticSweep(Tail(s), r, sel, g)
              IN  [cmds |-> <<Head(s)>> \o rest.cmds,
                   rng |-> rest.rng, panic |-> rest.panic]

(* the whole derivation loop, started with the generator in state g *)
RECURSIVE StochasticResult(_, _, _, _, _)
StochasticResult(o, a, r, sel, g) ==
    IF o = 0 THEN [cmds |-> a, rng |-> g, panic |-> FALSE]
    ELSE LET prev == StochasticResult(o - 1, a, r, sel, g)
         IN  IF prev.panic THEN prev
             ELSE LET res == StochasticSweep(prev.cmds, r, sel, prev.rng)
                  IN  IF res.panic
                      THEN [cmds |-> prev.cmds, rng |-> res.rng,
                            panic |-> TRUE]
                      ELSE res

StochasticCall(o, a, r, w) ==
    /\ status = "idle"
    /\ IF StochasticCheck(o, a, r, w) # ""
       THEN halt("Stochastic", StochasticCheck(o, a, r, w))
       ELSE /\ engine' = "Stochastic"
            /\ order' = o
            /\ axiom' = a
            /\ replacer' = <<>>
            /\ rules' = r
            /\ ruleMap' = <<>>
            /\ weights' = w
            /\ selectors' = BuildSelectors(w, 1)
            /\ TurtleCmds' = a
            /\ n' = 1
            /\ status' = "running"
            /\ UNCHANGED <<rng, seed, msg>>
            /\ UNCHANGED <<plotVars, multiVars, xoVars>>
    /\ derived' = TurtleCmds'
    /\ interpreted' = <<>>
    /\ handoffs' =
          IF status' \in {"idle", "halted", "panic"} THEN <<>>
          ELSE handoffs
    /\ visitedX' =
          IF status' # "plotting" THEN {}
          ELSE (IF status = "plotting" THEN visitedX ELSE {})
                  \cup {turtle'.X}
    /\ walked' =
          IF status' \in {"idle", "halted", "panic"} THEN <<>>
          ELSE walked
    /\ turns' =
          IF status = "plotting" /\ status' = "plotting" THEN turns
          ELSE 0
    /\ xoTurns' =
          IF status' \in {"idle", "halted", "panic"} THEN 0
          ELSE xoTurns
    /\ UNCHANGED hhVars

StochasticGen ==
    /\ status = "running"
    /\ engine = "Stochastic"
    /\ n <= order
    /\ LET res == StochasticSweep(TurtleCmds, rules, selectors, rng)
       IN  /\ rng' = res.rng
           /\ IF res.panic
              THEN panic
              ELSE /\ TurtleCmds' = res.cmds
                   /\ n' = n + 1
                   /\ UNCHANGED <<status, engine, order, axiom, replacer,
                                  rules, ruleMap, weights, selectors, msg>>
                   /\ UNCHANGED <<plotVars, multiVars, xoVars>>
    /\ UNCHANGED seed
    /\ derived' = TurtleCmds'
    /\ interpreted' = <<>>
    /\ handoffs' =
          IF status' \in {"idle", "halted", "panic"} THEN <<>>
          ELSE handoffs
    /\ visitedX' =
          IF status' # "plotting" THEN {}
          ELSE (IF status = "plotting" THEN visitedX ELSE {})
                  \cup {turtle'.X}
    /\ walked' =
          IF status' \in {"idle", "halted", "panic"} THEN <<>>
          ELSE walked
    /\ turns' =
          IF status = "plotting" /\ status' = "plotting" THEN turns
          ELSE 0
    /\ xoTurns' =
          IF status' \in {"idle", "halted", "panic"} THEN 0
          ELSE xoTurns
    /\ UNCHANGED hhVars

(* the key in which a context that was not found counts as "0" *)
ContextZeroWhenNone(l, a, r) ==
    (IF l = <<>> THEN <<"0">> ELSE l) \o <<" ", "<", " ">> \o a
        \o <<" ", ">", " ">> \o (IF r = <<>> THEN <<"0">> ELSE r)

(* ---------------------------- HogewegHesper ---------------------------- *)
(* fmt.Sprintf("%s < %s > %s", l, a, r) *)
Context(l, a, r) == l \o <<" ", "<", " ">> \o a \o <<" ", ">", " ">> \o r

(* regexp "^(0|1) < (0|1) > (0|1)$" *)
KeyMatches(k) ==
    \E l \in {"0", "1"}, a \in {"0", "1"}, r \in {"0", "1"} :
        k = Context(<<l>>, <<a>>, <<r>>)

(* the rule table checked only when there is a generation to rewrite *)
HogewegHesperCheckLazy(o, a, r) ==
    IF o < 0 THEN "curve order must be non-negative"
    ELSE IF a = <<>> THEN "axiom was not specified"
    ELSE IF o > 0 /\ \E k \in DOMAIN r : ~KeyMatches(k) \/ r[k] = <<>>
         THEN "the rules were not specified correctly"
    ELSE ""

HogewegHesperCheck(o, a, r) ==
    IF o < 0 THEN "curve order must be non-negative"
    ELSE IF a = <<>> THEN "axiom was not specified"
    ELSE IF \E k \in DOMAIN r : ~KeyMatches(k) \/ r[k] = <<>>
         THEN "the rules were not specified correctly"
    ELSE ""

(* getContextLHS: the inner loop that skips a branch.  It is entered with  *)
(* pos at a "]" and unmatched = 1, steps left until the brackets balance   *)
(* and gives the position it stops at, or 0 when it runs off the string    *)
(* (lhs[-1] in Go: index out of range).                                    *)
(* the skip stopping at the first "[" it meets, nested branches not counted *)
RECURSIVE SkipBranchLHSFlat(_, _, _)
SkipBranchLHSFlat(lhs, pos, unmatchedBrakets) ==
    IF unmatchedBrakets = 0 THEN pos
    ELSE IF pos - 1 < 1 THEN 0
    ELSE LET char == lhs[pos - 1]
         IN  SkipBranchLHSFlat(lhs, pos - 1,
                 unmatchedBrakets - (IF char = "[" THEN 1 ELSE 0))

RECURSIVE SkipBranchLHS(_, _, _)
SkipBranchLHS(lhs, pos, unmatchedBrakets) ==
    IF unmatchedBrakets = 0 THEN pos
    ELSE IF pos - 1 < 1 THEN 0
    ELSE LET char == lhs[pos - 1]
         IN  SkipBranchLHS(lhs, pos - 1,
                 unmatchedBrakets - (IF char = "[" THEN 1 ELSE 0)
                                  + (IF char = "]" THEN 1 ELSE 0))

(* searchLoop of getContextLHS from position pos (1-based) leftwards *)
RECURSIVE SearchLHS(_, _)
SearchLHS(lhs, pos) ==
    IF pos < 1 THEN [status |-> "ok", context |-> <<>>]
    ELSE LET symbol == lhs[pos]
         IN  IF symbol \in {"F", "+", "-", "$"} THEN SearchLHS(lhs, pos - 1)
             ELSE IF symbol = "[" THEN SearchLHS(lhs, pos - 1)
             ELSE IF symbol = "]"
                  THEN LET q == SkipBranchLHS(lhs, pos, 1)
                       IN  IF q = 0
                           THEN [status |-> "panic", context |-> <<>>]
                           ELSE SearchLHS(lhs, q - 1)
             ELSE IF symbol \in {"0", "1"}
                  THEN [status |-> "ok", context |-> <<symbol>>]
             ELSE [status |-> "halted", context |-> <<>>]

getContextLHS(lhs) == SearchLHS(lhs, Len(lhs))

(* getContextRHS: the inner loop that skips a side branch; Len(rhs) + 1    *)
(* when it runs off the string (index out of range)                        *)
(* the skip stopping at the first "]" it meets, nested branches not counted *)
RECURSIVE SkipBranchRHSFlat(_, _, _)
SkipBranchRHSFlat(rhs, pos, unmatchedBrakets) ==
    IF unmatchedBrakets = 0 THEN pos
    ELSE IF pos + 1 > Len(rhs) THEN Len(rhs) + 1
    ELSE LET char == rhs[pos + 1]
         IN  SkipBranchRHSFlat(rhs, pos + 1,
                 unmatchedBrakets - (IF char = "]" THEN 1 ELSE 0))

RECURSIVE SkipBranchRHS(_, _, _)
SkipBranchRHS(rhs, pos, unmatchedBrakets) ==
    IF unmatchedBrakets = 0 THEN pos
    ELSE IF pos + 1 > Len(rhs) THEN Len(rhs) + 1
    ELSE LET char == rhs[pos + 1]
         IN  SkipBranchRHS(rhs, pos + 1,
                 unmatchedBrakets + (IF char = "[" THEN 1 ELSE 0)
                                  - (IF char = "]" THEN 1 ELSE 0))

RECURSIVE SearchRHS(_, _)
SearchRHS(rhs, pos) ==
    IF pos > Len(rhs) THEN [status |-> "ok", context |-> <<>>]
    ELSE LET symbol == rhs[pos]
         IN  IF symbol \in {"F", "+", "-", "$"} THEN SearchRHS(rhs, pos + 1)
             ELSE IF symbol = "]" THEN [status |-> "ok", context |-> <<>>]
             ELSE IF symbol = "["
                  THEN LET q == SkipBranchRHS(rhs, pos, 1)
                       IN  IF q > Len(rhs)
                           THEN [status |-> "panic", context |-> <<>>]
                           ELSE SearchRHS(rhs, q + 1)
             ELSE IF symbol \in {"0", "1"}
                  THEN [status |-> "ok", context |-> <<symbol>>]
             ELSE [status |-> "halted", context |-> <<>>]

getContextRHS(rhs) == SearchRHS(rhs, 1)

(* the key built with the two contexts exchanged *)
RECURSIVE HogewegHesperSweepMirrored(_, _, _)
HogewegHesperSweepMirrored(cmds, r, pos) ==
    IF pos > Len(cmds) THEN [cmds |-> <<>>, fails |-> {}]
    ELSE LET symbol == cmds[pos]
             rest   == HogewegHesperSweepMirrored(cmds, r, pos + 1)
             copy(x) == [cmds |-> x \o rest.cmds, fails |-> rest.fails]
         IN  IF symbol \in {"F", "[", "]", "$"} THEN copy(<<symbol>>)
             ELSE IF symbol = "+" THEN copy(<<"-">>)
             ELSE IF symbol = "-" THEN copy(<<"+">>)
             ELSE IF symbol \in {"0", "1"}
                  THEN LET lhs == getContextLHS(SubSeq(cmds, 1, pos - 1))
                           rhs == getContextRHS(Drop(cmds, pos))
                           bad == {lhs.status, rhs.status} \ {"ok"}
                           context == Context(rhs.context, <<symbol>>,
                                              lhs.context)
                       IN  IF bad # {} THEN [cmds |-> <<>>, fails |-> bad]
                           ELSE IF context \in DOMAIN r
                                THEN copy(r[context])
                                ELSE copy(<<symbol>>)
             ELSE [cmds |-> <<>>, fails |-> {"halted"}]

(* the turn symbols copied like the other constants *)
RECURSIVE HogewegHesperSweepNoSwap(_, _, _)
HogewegHesperSweepNoSwap(cmds, r, pos) ==
    IF pos > Len(cmds) THEN [cmds |-> <<>>, fails |-> {}]
    ELSE LET symbol == cmds[pos]
             rest   == HogewegHesperSweepNoSwap(cmds, r, pos + 1)
             copy(x) == [cmds |-> x \o rest.cmds, fails |-> rest.fails]
         IN  IF symbol \in {"F", "[", "]", "$"} THEN copy(<<symbol>>)
             ELSE IF symbol = "+" THEN copy(<<"+">>)
             ELSE IF symbol = "-" THEN copy(<<"-">>)
             ELSE IF symbol \in {"0", "1"}
                  THEN LET lhs == getContextLHS(SubSeq(cmds, 1, pos - 1))
                           rhs == getContextRHS(Drop(cmds, pos))
                           bad == {lhs.status, rhs.status} \ {"ok"}
                           context == Context(lhs.context, <<symbol>>,
                                              rhs.context)
                       IN  IF bad # {} THEN [cmds |-> <<>>, fails |-> bad]
                           ELSE IF context \in DOMAIN r
                                THEN copy(r[context])
                                ELSE copy(<<symbol>>)
             ELSE [cmds |-> <<>>, fails |-> {"halted"}]

(* a symbol whose context has no rule appended as the empty replacement *)
RECURSIVE HogewegHesperSweepDropMiss(_, _, _)
HogewegHesperSweepDropMiss(cmds, r, pos) ==
    IF pos > Len(cmds) THEN [cmds |-> <<>>, fails |-> {}]
    ELSE LET symbol == cmds[pos]
             rest   == HogewegHesperSweepDropMiss(cmds, r, pos + 1)
             copy(x) == [cmds |-> x \o rest.cmds, fails |-> rest.fails]
         IN  IF symbol \in {"F", "[", "]", "$"} THEN copy(<<symbol>>)
             ELSE IF symbol = "+" THEN copy(<<"-">>)
             ELSE IF symbol = "-" THEN copy(<<"+">>)
             ELSE IF symbol \in {"0", "1"}
                  THEN LET lhs == getContextLHS(SubSeq(cmds, 1, pos - 1))
                           rhs == getContextRHS(Drop(cmds, pos))
                           bad == {lhs.status, rhs.status} \ {"ok"}
                           context == Context(lhs.context, <<symbol>>,
                                              rhs.context)
                       IN  IF bad # {} THEN [cmds |-> <<>>, fails |-> bad]
                           ELSE IF context \in DOMAIN r
                                THEN copy(r[context])
                                ELSE copy(<<>>)
             ELSE [cmds |-> <<>>, fails |-> {"halted"}]

(* the sweep that does not copy "]" *)
RECURSIVE HogewegHesperSweepDropClose(_, _, _)
HogewegHesperSweepDropClose(cmds, r, pos) ==
    IF pos > Len(cmds) THEN [cmds |-> <<>>, fails |-> {}]
    ELSE LET symbol == cmds[pos]
             rest   == HogewegHesperSweepDropClose(cmds, r, pos + 1)
             copy(x) == [cmds |-> x \o rest.cmds, fails |-> rest.fails]
         IN  IF symbol \in {"F", "[", "$"} THEN copy(<<symbol>>)
             ELSE IF symbol = "]" THEN copy(<<>>)
             ELSE IF symbol = "+" THEN copy(<<"-">>)
             ELSE IF symbol = "-" THEN copy(<<"+">>)
             ELSE IF symbol \in {"0", "1"}
                  THEN LET lhs == getContextLHS(SubSeq(cmds, 1, pos - 1))
                           rhs == getContextRHS(Drop(cmds, pos))
                           bad == {lhs.status, rhs.status} \ {"ok"}
                           context == Context(lhs.context, <<symbol>>,
                                              rhs.context)
                       IN  IF bad # {} THEN [cmds |-> <<>>, fails |-> bad]
                           ELSE IF context \in DOMAIN r
                                THEN copy(r[context])
                                ELSE copy(<<symbol>>)
             ELSE [cmds |-> <<>>, fails |-> {"halted"}]

(* one generation from position pos on: the successor symbols, and the     *)
(* ways the process can end if it does not get through ({} when it does).  *)
(* The two context searches run concurrently, so when both fail either     *)
(* failure can be the one that ends the process.                           *)
RECURSIVE HogewegHesperSweep(_, _, _)
HogewegHesperSweep(cmds, r, pos) ==
    IF pos > Len(cmds) THEN [cmds |-> <<>>, fails |-> {}]
    ELSE LET symbol == cmds[pos]
             rest   == HogewegHesperSweep(cmds, r, pos + 1)
             copy(x) == [cmds |-> x \o rest.cmds, fails |-> rest.fails]
         IN  IF symbol \in {"F", "[", "]", "$"} THEN copy(<<symbol>>)
             ELSE IF symbol = "+" THEN copy(<<"-">>)
             ELSE IF symbol = "-" THEN copy(<<"+">>)
             ELSE IF symbol \in {"0", "1"}
                  THEN LET lhs == getContextLHS(SubSeq(cmds, 1, pos - 1))
                           rhs == getContextRHS(Drop(cmds, pos))
                           bad == {lhs.status, rhs.status} \ {"ok"}
                           context == Context(lhs.context, <<symbol>>,
                                              rhs.context)
                       IN  IF bad # {} THEN [cmds |-> <<>>, fails |-> bad]
                           ELSE IF context \in DOMAIN r
                                THEN copy(r[context])
                                ELSE copy(<<symbol>>)
             ELSE [cmds |-> <<>>, fails |-> {"halted"}]

HogewegHesperCall(o, a, r) ==
    /\ status = "idle"
    /\ IF HogewegHesperCheck(o, a, r) # ""
       THEN halt("HogewegHesper", HogewegHesperCheck(o, a, r))
       ELSE /\ engine' = "HogewegHesper"
            /\ order' = o
            /\ axiom' = a
            /\ replacer' = <<>>
            /\ rules' = <<>>
            /\ ruleMap' = r
            /\ weights' = <<>>
            /\ selectors' = <<>>
            /\ TurtleCmds' = a
            /\ n' = 1
            /\ status' = "running"
            /\ UNCHANGED <<rng, seed, msg>>
            /\ UNCHANGED <<plotVars, multiVars, xoVars>>
    /\ derived' = TurtleCmds'
    /\ interpreted' = <<>>
    /\ handoffs' =
          IF status' \in {"idle", "halted", "panic"} THEN <<>>
          ELSE handoffs
    /\ visitedX' =
          IF status' # "plotting" THEN {}
          ELSE (IF status = "plotting" THEN visitedX ELSE {})
                  \cup {turtle'.X}
    /\ walked' =
          IF status' \in {"idle", "halted", "panic"} THEN <<>>
          ELSE walked
    /\ turns' =
          IF status = "plotting" /\ status' = "plotting" THEN turns
          ELSE 0
    /\ xoTurns' =
          IF status' \in {"idle", "halted", "panic"} THEN 0
          ELSE xoTurns
    /\ UNCHANGED hhVars

HogewegHesperGen ==
    /\ status = "running"
    /\ engine = "HogewegHesper"
    /\ n <= order
    /\ LET res == HogewegHesperSweep(TurtleCmds, ruleMap, 1)
       IN  IF res.fails = {}
           THEN /\ TurtleCmds' = res.cmds
                /\ n' = n + 1
                /\ UNCHANGED <<status, engine, order, axiom, replacer, rules,
                               ruleMap, weights, selectors, rng, seed, msg>>
                /\ UNCHANGED <<plotVars, multiVars, xoVars>>
           ELSE \E f \in res.fails :
                   IF f = "halted"
                   THEN halt("HogewegHesper", "the symbol is not supported")
                   ELSE panic /\ UNCHANGED <<rng, seed>>
    /\ derived' = TurtleCmds'
    /\ interpreted' = <<>>
    /\ handoffs' =
          IF status' \in {"idle", "halted", "panic"} THEN <<>>
          ELSE handoffs
    /\ visitedX' =
          IF status' # "plotting" THEN {}
          ELSE (IF status = "plotting" THEN visitedX ELSE {})
                  \cup {turtle'.X}
    /\ walked' =
          IF status' \in {"idle", "halted", "panic"} THEN <<>>
          ELSE walked
    /\ turns' =
          IF status = "plotting" /\ status' = "plotting" THEN turns
          ELSE 0
    /\ xoTurns' =
          IF status' \in {"idle", "halted", "panic"} THEN 0
          ELSE xoTurns
    /\ UNCHANGED hhVars

Return ==
    /\ status = "running"
    /\ n > order
    /\ status' = "idle"
    /\ engine' = "none"
    /\ NoLocals
    /\ UNCHANGED <<TurtleCmds, rng, seed, msg>>
    /\ derived' = TurtleCmds'
    /\ interpreted' = <<>>
    /\ handoffs' =
          IF status' \in {"idle", "halted", "panic"} THEN <<>>
          ELSE handoffs
    /\ visitedX' =
          IF status' # "plotting" THEN {}
          ELSE (IF status = "plotting" THEN visitedX ELSE {})
                  \cup {turtle'.X}
    /\ walked' =
          IF status' \in {"idle", "halted", "panic"} THEN <<>>
          ELSE walked
    /\ turns' =
          IF status = "plotting" /\ status' = "plotting" THEN turns
          ELSE 0
    /\ xoTurns' =
          IF status' \in {"idle", "halted", "panic"} THEN 0
          ELSE xoTurns
    /\ UNCHANGED hhVars

Next ==
    \/ \E o \in Orders, a \in PlainAxioms, r \in Replacers :
          DeterministicCall(o, a, r)
    \/ DeterministicGen
    \/ \E o \in Orders, a \in PlainAxioms, c \in StochasticConfigs :
          StochasticCall(o, a, c[1], c[2])
    \/ StochasticGen
    \/ \E o \in Orders, a \in HHAxioms, r \in HHTables :
          HogewegHesperCall(o, a, r)
    \/ HogewegHesperGen
    \/ Return

Spec == Init /\ [][Next]_vars
(* ------------------------ turtle interpretation ------------------------ *)
(* Plot and HpglPlot interpret TurtleCmds itself: they pass &TurtleCmds to *)
(* the closure made by makeLogo2Gnuplot or makeLogo2Hpgl, which rewrites   *)
(* the string it is given (it removes "pointless turns" first and every    *)
(* production variable it meets) and walks it with unit strides.           *)
Digits == {"0", "1", "2", "3", "4", "5", "6", "7", "8", "9"}

TurtleConstants == {"F", "f", "+", "-", "|", "$", "(", ")", "[", "]", "{", "}"}

(* strings.NewReplacer("+-", "", "-+", "").Replace *)
removePointlessTurns(s) ==
    Replace(<< <<(<<"+", "-">>), <<>> >>, <<(<<"-", "+">>), <<>> >> >>, s)

(* strings.NewReplacer(symbol, "").Replace *)
removeVariable(symbol, s) == Replace(<< <<(<<symbol>>), <<>> >> >>, s)

(* _reHeading = ^\(([\+\-0-9.]+?)\) applied to s: the length of the match, *)
(* 0 when there is none.  The characters between the parentheses are       *)
(* heading characters, at least one, and ")" is none, so the match ends at *)
(* the first ")".                                                          *)
HeadingChars == Digits \cup {"+", "-", "."}

reHeadingMatch(s) ==
    IF s = <<>> \/ Head(s) # "(" THEN 0
    ELSE LET C == {j \in 3..Len(s) :
                      /\ s[j] = ")"
                      /\ \A i \in 2..(j - 1) : s[i] \in HeadingChars}
         IN  IF C = {} THEN 0 ELSE Min(C)

DigitValue(c) ==
    CASE c = "0" -> 0 [] c = "1" -> 1 [] c = "2" -> 2 [] c = "3" -> 3
      [] c = "4" -> 4 [] c = "5" -> 5 [] c = "6" -> 6 [] c = "7" -> 7
      [] c = "8" -> 8 [] c = "9" -> 9

RECURSIVE Decimal(_)
Decimal(ds) ==
    IF ds = <<>> THEN 0
    ELSE 10 * Decimal(SubSeq(ds, 1, Len(ds) - 1)) + DigitValue(ds[Len(ds)])

(* strconv.ParseFloat of a string of heading characters: an optional sign, *)
(* digits, and at most one decimal point, with a digit somewhere.  The     *)
(* value is given for the literals whose fraction part is zero.            *)
ParseFloat(lit) ==
    LET signed == lit # <<>> /\ lit[1] \in {"+", "-"}
        body   == IF signed THEN Tail(lit) ELSE lit
        dots   == {i \in 1..Len(body) : body[i] = "."}
        whole  == IF dots = {} THEN body ELSE SubSeq(body, 1, Min(dots) - 1)
        frac   == IF dots = {} THEN <<>> ELSE Drop(body, Min(dots))
        ok     == /\ Range(body) \subseteq Digits \cup {"."}
                  /\ Cardinality(dots) <= 1
                  /\ Len(whole) + Len(frac) >= 1
        value  == CASE Range(frac) \subseteq {"0"} ->
                         IF signed /\ lit[1] = "-" THEN 0 - Decimal(whole)
                         ELSE Decimal(whole)
    IN  IF ok THEN [ok |-> TRUE, value |-> value]
        ELSE [ok |-> FALSE, value |-> 0]

(* getHeading(cmds, posLP): the heading declared at posLP (counted from 0) *)
(* and the position of its ")"; ok is FALSE when getHeading halts.         *)
getHeading(cmds, posLP) ==
    LET len == reHeadingMatch(Drop(cmds, posLP))
        lit == SubSeq(cmds, posLP + 2, posLP + len - 1)
    IN  IF len = 0 THEN [ok |-> FALSE, heading |-> 0, pos |-> posLP]
        ELSE [ok |-> ParseFloat(lit).ok,
              heading |-> IF ParseFloat(lit).ok THEN ParseFloat(lit).value
                          ELSE 0,
              pos |-> posLP + len - 1]

(* _turtleHistory.pop: the last turtle saved and the stack without it; an  *)
(* empty stack is indexed at -1 (ok is FALSE: index out of range).         *)
(* pop that leaves the turtle on the stack *)
popPeek(lifoStack) ==
    IF lifoStack = <<>>
    THEN [ok |-> FALSE, turtle |-> _turtleStatus(0, Zero, Zero),
          stack |-> <<>>]
    ELSE [ok |-> TRUE, turtle |-> lifoStack[Len(lifoStack)],
          stack |-> lifoStack]

(* pop that gives the zero turtle when the stack is empty *)
popOrZero(lifoStack) ==
    IF lifoStack = <<>>
    THEN [ok |-> TRUE, turtle |-> _turtleStatus(0, Zero, Zero),
          stack |-> <<>>]
    ELSE [ok |-> TRUE, turtle |-> lifoStack[Len(lifoStack)],
          stack |-> SubSeq(lifoStack, 1, Len(lifoStack) - 1)]

pop(lifoStack) ==
    IF lifoStack = <<>>
    THEN [ok |-> FALSE, turtle |-> _turtleStatus(0, Zero, Zero),
          stack |-> <<>>]
    ELSE [ok |-> TRUE, turtle |-> lifoStack[Len(lifoStack)],
          stack |-> SubSeq(lifoStack, 1, Len(lifoStack) - 1)]

(* _turtleHistory.push *)
push(lifoStack, t) == Append(lifoStack, t)

(* case "+", "-", "|", "$": the heading after the turn symbol, h being the *)
(* heading before it and a the production angle                            *)
(* the turn with "$" adding 90 to the heading *)
turnNorthRelative(symbol, h, a) ==
    CASE symbol = "+" -> h + a
      [] symbol = "-" -> h - a
      [] symbol = "|" -> h + 180
      [] symbol = "$" -> h + 90

turn(symbol, h, a) ==
    CASE symbol = "+" -> h + a
      [] symbol = "-" -> h - a
      [] symbol = "|" -> h + 180
      [] symbol = "$" -> 90

(* case "F", "f": one unit stride along the heading, and the bounding box  *)
(* after it.  b is the box before the move.                                *)
(* the stride that leaves the bounding box as it was *)
forwardKeepBox(t, b) ==
    LET x == Plus(t.X, MathCos(t.HEADING))
        y == Plus(t.Y, MathSin(t.HEADING))
    IN  [turtle |-> [t EXCEPT !.X = x, !.Y = y],
         xMin |-> b.xMin, xMax |-> b.xMax,
         yMin |-> b.yMin, yMax |-> b.yMax]

(* the stride with the case 270, -90 moving up *)
forwardUp(t, b) ==
    LET m == MathMod(t.HEADING, 360)
    IN  CASE m = 0 ->
               LET x == Plus(t.X, One)
               IN  [turtle |-> [t EXCEPT !.X = x],
                    xMin |-> b.xMin, xMax |-> MathMax(b.xMax, x),
                    yMin |-> b.yMin, yMax |-> b.yMax]
          [] m \in {90, -270} ->
               LET y == Plus(t.Y, One)
               IN  [turtle |-> [t EXCEPT !.Y = y],
                    xMin |-> b.xMin, xMax |-> b.xMax,
                    yMin |-> b.yMin, yMax |-> MathMax(b.yMax, y)]
          [] m \in {180, -180} ->
               LET x == Minus(t.X, One)
               IN  [turtle |-> [t EXCEPT !.X = x],
                    xMin |-> MathMin(b.xMin, x), xMax |-> b.xMax,
                    yMin |-> b.yMin, yMax |-> b.yMax]
          [] m \in {270, -90} ->
               LET y == Plus(t.Y, One)
               IN  [turtle |-> [t EXCEPT !.Y = y],
                    xMin |-> b.xMin, xMax |-> b.xMax,
                    yMin |-> b.yMin, yMax |-> MathMax(b.yMax, y)]
          [] OTHER ->
               LET x == Plus(t.X, MathCos(t.HEADING))
                   y == Plus(t.Y, MathSin(t.HEADING))
               IN  [turtle |-> [t EXCEPT !.X = x, !.Y = y],
                    xMin |-> MathMin(b.xMin, x), xMax |-> MathMax(b.xMax, x),
                    yMin |-> MathMin(b.yMin, y), yMax |-> MathMax(b.yMax, y)]

forward(t, b) ==
    LET m == MathMod(t.HEADING, 360)
    IN  CASE m = 0 ->
               LET x == Plus(t.X, One)
               IN  [turtle |-> [t EXCEPT !.X = x],
                    xMin |-> b.xMin, xMax |-> MathMax(b.xMax, x),
                    yMin |-> b.yMin, yMax |-> b.yMax]
          [] m \in {90, -270} ->
               LET y == Plus(t.Y, One)
               IN  [turtle |-> [t EXCEPT !.Y = y],
                    xMin |-> b.xMin, xMax |-> b.xMax,
                    yMin |-> b.yMin, yMax |-> MathMax(b.yMax, y)]
          [] m \in {180, -180} ->
               LET x == Minus(t.X, One)
               IN  [turtle |-> [t EXCEPT !.X = x],
                    xMin |-> MathMin(b.xMin, x), xMax |-> b.xMax,
                    yMin |-> b.yMin, yMax |-> b.yMax]
          [] m \in {270, -90} ->
               LET y == Minus(t.Y, One)
               IN  [turtle |-> [t EXCEPT !.Y = y],
                    xMin |-> b.xMin, xMax |-> b.xMax,
                    yMin |-> MathMin(b.yMin, y), yMax |-> b.yMax]
          [] OTHER ->
               LET x == Plus(t.X, MathCos(t.HEADING))
                   y == Plus(t.Y, MathSin(t.HEADING))
               IN  [turtle |-> [t EXCEPT !.X = x, !.Y = y],
                    xMin |-> MathMin(b.xMin, x), xMax |-> MathMax(b.xMax, x),
                    yMin |-> MathMin(b.yMin, y), yMax |-> MathMax(b.yMax, y)]

(* A primitive is a record [op, pts]: op names the command and pts holds   *)
(* its points <<x, y>>.  NoCmd is the empty string "".                     *)
NoCmd == [op |-> "", pts |-> <<>>]

(* the converter that draws a line segment for "f" too *)
convert2GnuplotAnyMove(symbol, from, to, poly) ==
    IF symbol = "{" THEN [pltCmd |-> NoCmd, polygon |-> <<from>>]
    ELSE IF symbol = "}"
         THEN [pltCmd |-> IF poly = <<>> THEN NoCmd
                          ELSE [op |-> "set object polygon", pts |-> poly],
               polygon |-> <<>>]
    ELSE IF poly # <<>> THEN [pltCmd |-> NoCmd, polygon |-> Append(poly, to)]
    ELSE [pltCmd |-> [op |-> "set arrow", pts |-> <<from, to>>],
          polygon |-> poly]

(* the converter that adds the point before the move to the polygon *)
convert2GnuplotFromVertex(symbol, from, to, poly) ==
    IF symbol = "{" THEN [pltCmd |-> NoCmd, polygon |-> <<from>>]
    ELSE IF symbol = "}"
         THEN [pltCmd |-> IF poly = <<>> THEN NoCmd
                          ELSE [op |-> "set object polygon", pts |-> poly],
               polygon |-> <<>>]
    ELSE IF poly # <<>> THEN [pltCmd |-> NoCmd, polygon |-> Append(poly, from)]
    ELSE IF symbol = "F"
         THEN [pltCmd |-> [op |-> "set arrow", pts |-> <<from, to>>],
               polygon |-> poly]
    ELSE [pltCmd |-> NoCmd, polygon |-> poly]

(* the function made by makeConvert2Gnuplot, called with the symbol, the   *)
(* points from and to (coords[0..1], coords[2..3]) and the polygon under   *)
(* construction (<<>> for ""): the command it returns and the polygon left *)
convert2Gnuplot(symbol, from, to, poly) ==
    IF symbol = "{" THEN [pltCmd |-> NoCmd, polygon |-> <<from>>]
    ELSE IF symbol = "}"
         THEN [pltCmd |-> IF poly = <<>> THEN NoCmd
                          ELSE [op |-> "set object polygon", pts |-> poly],
               polygon |-> <<>>]
    ELSE IF poly # <<>> THEN [pltCmd |-> NoCmd, polygon |-> Append(poly, to)]
    ELSE IF symbol = "F"
         THEN [pltCmd |-> [op |-> "set arrow", pts |-> <<from, to>>],
               polygon |-> poly]
    ELSE [pltCmd |-> NoCmd, polygon |-> poly]

(* the function made by makeConvert2Hpgl, called with the symbol, the      *)
(* point and the previous pen command: the text it returns and the pen     *)
(* command left                                                            *)
(* convert2Hpgl with a pen command begun for every move *)
convert2HpglNoCoalesce(symbol, pt, prev) ==
    LET penCmd == IF symbol = "F" THEN "PD" ELSE "PU"
    IN  IF symbol = "{"
        THEN [pltCmd |-> [op |-> ";PM0;", pts |-> <<>>], penCmdPrev |-> ""]
        ELSE IF symbol = "}"
             THEN [pltCmd |-> [op |-> ";PM2;EP;FP;", pts |-> <<>>],
                   penCmdPrev |-> ""]
        ELSE IF prev # ""
             THEN [pltCmd |-> [op |-> IF penCmd = "PD" THEN ";PD" ELSE ";PU",
                               pts |-> <<pt>>],
                   penCmdPrev |-> penCmd]
        ELSE [pltCmd |-> [op |-> penCmd, pts |-> <<pt>>],
              penCmdPrev |-> penCmd]

(* convert2Hpgl with the pen down for "f" as for "F" *)
convert2HpglAlwaysDown(symbol, pt, prev) ==
    LET penCmd == "PD"
    IN  IF symbol = "{"
        THEN [pltCmd |-> [op |-> ";PM0;", pts |-> <<>>], penCmdPrev |-> ""]
        ELSE IF symbol = "}"
             THEN [pltCmd |-> [op |-> ";PM2;EP;FP;", pts |-> <<>>],
                   penCmdPrev |-> ""]
        ELSE IF prev = penCmd
             THEN [pltCmd |-> [op |-> ",", pts |-> <<pt>>],
                   penCmdPrev |-> prev]
        ELSE IF prev # ""
             THEN [pltCmd |-> [op |-> ";PD", pts |-> <<pt>>],
                   penCmdPrev |-> penCmd]
        ELSE [pltCmd |-> [op |-> penCmd, pts |-> <<pt>>],
              penCmdPrev |-> penCmd]

convert2Hpgl(symbol, pt, prev) ==
    LET penCmd == IF symbol = "F" THEN "PD" ELSE "PU"
    IN  IF symbol = "{"
        THEN [pltCmd |-> [op |-> ";PM0;", pts |-> <<>>], penCmdPrev |-> ""]
        ELSE IF symbol = "}"
             THEN [pltCmd |-> [op |-> ";PM2;EP;FP;", pts |-> <<>>],
                   penCmdPrev |-> ""]
        ELSE IF prev = penCmd
             THEN [pltCmd |-> [op |-> ",", pts |-> <<pt>>],
                   penCmdPrev |-> prev]
        ELSE IF prev # ""
             THEN [pltCmd |-> [op |-> IF penCmd = "PD" THEN ";PD" ELSE ";PU",
                               pts |-> <<pt>>],
                   penCmdPrev |-> penCmd]
        ELSE [pltCmd |-> [op |-> penCmd, pts |-> <<pt>>],
              penCmdPrev |-> penCmd]

(* ------------------------------ inputs --------------------------------- *)
MaxCmdsLen == 3

PlotAngles == {0, 90, -90, 60}

(* validFgColor: a name gnuplot knows, or "#" and six hexadecimal digits *)
PlotColors == {"", "black", "noir", "#0000ff", "#00f"}

_colorNames == {"black"}

validFgColor(fgColor) ==
    IF fgColor = "" THEN FALSE
    ELSE IF fgColor \in {"#0000ff", "#00f"} THEN fgColor = "#0000ff"
    ELSE fgColor \in _colorNames

HpglPaths == {"", "demo.plt"}

TurtleSamples ==
    { <<"F", "+", "F", "+", "F", "+", "F">>,
      <<"F", "-", "F", "-", "F", "-", "F">>,
      <<"+", "+", "-", "-">>,
      <<"-", "+", "+", "-", "F">>,
      <<"F", "[", "+", "F", "]", "F", "[", "-", "F", "]", "F">>,
      <<"F", "[", "+", "F", "[", "-", "F", "]", "f", "]", "|", "F">>,
      <<"[", "+", "[", "F", "]", "F", "]", "F">>,
      <<"[", "[", "F", "]", "]", "]", "F">>,
      <<"$", "F", "X", "+", "X", "F">>,
      <<"{", "F", "+", "F", "+", "F", "}", "F">>,
      <<"(", "9", "0", ")", "F", "(", "-", "9", "0", ")", "F">>,
      <<"[", "(", "1", "8", "0", ")", "F", "]", "f">>,
      <<"(", "+", "-", ")", "F">>,
      <<"(", "F", ")">>,
      <<"F", "(">>,
      <<"9", "(", "9", "0", ")", "F">>,
      <<"-", "$", "f", "|", "F">>,
      <<"F", "{", "f", "-", "F", "}", "F">>,
      <<"(", "9", "0", ")", "9", "F">> }

TurtleInputs ==
    StringsUpTo({"F", "+", "-", "[", "]"}, MaxCmdsLen) \cup TurtleSamples

(* ------------------------------- Plot ---------------------------------- *)
Box == [xMin |-> xMin, xMax |-> xMax, yMin |-> yMin, yMax |-> yMax]

(* the closure is made and called: the box is (0, 0, 0, 0), the turtle is  *)
(* at the origin with heading 0, the stack is empty and the pointless      *)
(* turns are removed from the string                                       *)
logo2Start(caller, a, cmds, first, prev) ==
    /\ status' = "plotting"
    /\ engine' = caller
    /\ angle' = a
    /\ TurtleCmds' = removePointlessTurns(cmds)
    /\ position' = 0
    /\ turtle' = _turtleStatus(0, Zero, Zero)
    /\ stack' = <<>>
    /\ xMin' = Zero
    /\ xMax' = Zero
    /\ yMin' = Zero
    /\ yMax' = Zero
    /\ plotCmds' = first
    /\ polygon' = <<>>
    /\ penCmdPrev' = prev
    /\ UNCHANGED <<engineVars, rng, seed, msg, multiVars, xoVars>>

PlotCall(a, lineColor) ==
    /\ status = "idle"
    /\ IF TurtleCmds = <<>>
       THEN halt("Plot", "the turtle commands were not generated")
       ELSE IF a = 0 THEN halt("Plot", "the production angle is zero")
       ELSE IF ~validFgColor(lineColor)
            THEN halt("Plot", "the color name is not valid")
       ELSE logo2Start("Plot", a, TurtleCmds, <<>>, "")
    /\ UNCHANGED derived
    /\ interpreted' = <<>>
    /\ handoffs' =
          IF status' \in {"idle", "halted", "panic"} THEN <<>>
          ELSE handoffs
    /\ visitedX' =
          IF status' # "plotting" THEN {}
          ELSE (IF status = "plotting" THEN visitedX ELSE {})
                  \cup {turtle'.X}
    /\ walked' =
          IF status' \in {"idle", "halted", "panic"} THEN <<>>
          ELSE walked
    /\ turns' =
          IF status = "plotting" /\ status' = "plotting" THEN turns
          ELSE 0
    /\ xoTurns' =
          IF status' \in {"idle", "halted", "panic"} THEN 0
          ELSE xoTurns
    /\ UNCHANGED hhVars

HpglPlotCall(a, hpglPath) ==
    /\ status = "idle"
    /\ IF TurtleCmds = <<>>
       THEN halt("HpglPlot", "the turtle commands were not generated")
       ELSE IF a = 0 THEN halt("HpglPlot", "the production angle is zero")
       ELSE IF hpglPath = ""
            THEN halt("HpglPlot", "the path for the plot was not specified")
       ELSE logo2Start("HpglPlot", a, TurtleCmds,
                       <<convert2Hpgl("f", <<Zero, Zero>>, "").pltCmd>>,
                       convert2Hpgl("f", <<Zero, Zero>>, "").penCmdPrev)
    /\ UNCHANGED derived
    /\ interpreted' = <<>>
    /\ handoffs' =
          IF status' \in {"idle", "halted", "panic"} THEN <<>>
          ELSE handoffs
    /\ visitedX' =
          IF status' # "plotting" THEN {}
          ELSE (IF status = "plotting" THEN visitedX ELSE {})
                  \cup {turtle'.X}
    /\ walked' =
          IF status' \in {"idle", "halted", "panic"} THEN <<>>
          ELSE walked
    /\ turns' =
          IF status = "plotting" /\ status' = "plotting" THEN turns
          ELSE 0
    /\ xoTurns' =
          IF status' \in {"idle", "halted", "panic"} THEN 0
          ELSE xoTurns
    /\ UNCHANGED hhVars

(* what a step leaves alone *)
KeepTurtle == UNCHANGED <<turtle, xMin, xMax, yMin, yMax>>

KeepCall ==
    UNCHANGED <<status, engine, angle, engineVars, rng, seed, msg>>

(* one turn of the loop of the closure made by makeLogo2Gnuplot, cmds       *)
(* being the string its argument turtleCmds points to and cmdsNext that    *)
(* string after the turn                                                   *)
logo2GnuplotLoop(cmds, cmdsNext) ==
    /\ status = "plotting"
    /\ position < Len(cmds)
    /\ LET symbol == cmds[position + 1]
       IN  CASE symbol \in {"F", "f"} ->
                  LET mv  == forward(turtle, Box)
                      cnv == convert2Gnuplot(symbol, <<turtle.X, turtle.Y>>,
                                 <<mv.turtle.X, mv.turtle.Y>>, polygon)
                  IN  /\ turtle' = mv.turtle
                      /\ xMin' = mv.xMin
                      /\ xMax' = mv.xMax
                      /\ yMin' = mv.yMin
                      /\ yMax' = mv.yMax
                      /\ polygon' = cnv.polygon
                      /\ plotCmds' = IF cnv.pltCmd # NoCmd
                                     THEN Append(plotCmds, cnv.pltCmd)
                                     ELSE plotCmds
                      /\ position' = position + 1
                      /\ KeepCall
                      /\ cmdsNext = cmds
                      /\ UNCHANGED <<stack, penCmdPrev>>
             [] symbol \in {"+", "-", "|", "$"} ->
                  /\ turtle' =
                        [turtle EXCEPT !.HEADING = turn(symbol, @, angle)]
                  /\ position' = position + 1
                  /\ KeepCall
                  /\ cmdsNext = cmds
                  /\ UNCHANGED <<stack, xMin, xMax, yMin, yMax,
                                 plotCmds, polygon, penCmdPrev>>
             [] symbol = "(" ->
                  LET h == getHeading(cmds, position)
                  IN  IF ~h.ok
                      THEN halt("getHeading",
                             "the specified angle is not syntactically well-formed")
                      ELSE /\ turtle' = [turtle EXCEPT !.HEADING = h.heading]
                           /\ position' = h.pos + 1
                           /\ KeepCall
                           /\ cmdsNext = cmds
                           /\ UNCHANGED <<stack, xMin, xMax, yMin,
                                          yMax, plotCmds, polygon, penCmdPrev>>
             [] symbol = "[" ->
                  /\ stack' = push(stack, turtle)
                  /\ position' = position + 1
                  /\ KeepCall
                  /\ KeepTurtle
                  /\ cmdsNext = cmds
                  /\ UNCHANGED <<plotCmds, polygon, penCmdPrev>>
             [] symbol = "]" ->
                  IF ~pop(stack).ok THEN panic /\ UNCHANGED <<rng, seed>>
                  ELSE /\ turtle' = pop(stack).turtle
                       /\ stack' = pop(stack).stack
                       /\ position' = position + 1
                       /\ KeepCall
                       /\ cmdsNext = cmds
                       /\ UNCHANGED <<xMin, xMax, yMin, yMax,
                                      plotCmds, polygon, penCmdPrev>>
             [] symbol = "{" ->
                  /\ polygon' = convert2Gnuplot(symbol, <<turtle.X, turtle.Y>>,
                                    <<turtle.X, turtle.Y>>, polygon).polygon
                  /\ position' = position + 1
                  /\ KeepCall
                  /\ KeepTurtle
                  /\ cmdsNext = cmds
                  /\ UNCHANGED <<stack, plotCmds, penCmdPrev>>
             [] symbol = "}" ->
                  LET cnv == convert2Gnuplot(symbol, <<turtle.X, turtle.Y>>,
                                 <<turtle.X, turtle.Y>>, polygon)
                  IN  /\ plotCmds' = Append(plotCmds, cnv.pltCmd)
                      /\ polygon' = cnv.polygon
                      /\ position' = position + 1
                      /\ KeepCall
                      /\ KeepTurtle
                      /\ cmdsNext = cmds
                      /\ UNCHANGED <<stack, penCmdPrev>>
             [] OTHER ->
                  /\ cmdsNext = removeVariable(symbol, cmds)
                  /\ KeepCall
                  /\ KeepTurtle
                  /\ UNCHANGED <<position, stack, plotCmds, polygon,
                                 penCmdPrev>>

logo2GnuplotStep ==
    /\ engine = "Plot"
    /\ logo2GnuplotLoop(TurtleCmds, TurtleCmds')
    /\ UNCHANGED <<multiVars, xoVars>>
    /\ UNCHANGED derived
    /\ interpreted' =
          IF status' # "plotting" THEN <<>>
          ELSE interpreted \o SubSeq(TurtleCmds, position + 1, position')
    /\ handoffs' =
          IF status' \in {"idle", "halted", "panic"} THEN <<>>
          ELSE handoffs
    /\ visitedX' =
          IF status' # "plotting" THEN {}
          ELSE (IF status = "plotting" THEN visitedX ELSE {})
                  \cup {turtle'.X}
    /\ walked' =
          IF status' \in {"idle", "halted", "panic"} THEN <<>>
          ELSE walked
    /\ turns' = IF status' # "plotting" THEN 0 ELSE turns + 1
    /\ xoTurns' =
          IF status' \in {"idle", "halted", "panic"} THEN 0
          ELSE xoTurns
    /\ UNCHANGED hhVars

(* one turn of the loop of the closure made by makeLogo2Hpgl *)
logo2HpglLoop(cmds, cmdsNext) ==
    /\ status = "plotting"
    /\ position < Len(cmds)
    /\ LET symbol == cmds[position + 1]
       IN  CASE symbol \in {"F", "f"} ->
                  LET mv  == forward(turtle, Box)
                      cnv == convert2Hpgl(symbol,
                                 <<mv.turtle.X, mv.turtle.Y>>, penCmdPrev)
                  IN  /\ turtle' = mv.turtle
                      /\ xMin' = mv.xMin
                      /\ xMax' = mv.xMax
                      /\ yMin' = mv.yMin
                      /\ yMax' = mv.yMax
                      /\ plotCmds' = Append(plotCmds, cnv.pltCmd)
                      /\ penCmdPrev' = cnv.penCmdPrev
                      /\ position' = position + 1
                      /\ KeepCall
                      /\ cmdsNext = cmds
                      /\ UNCHANGED <<stack, polygon>>
             [] symbol \in {"+", "-", "|", "$"} ->
                  /\ turtle' =
                        [turtle EXCEPT !.HEADING = turn(symbol, @, angle)]
                  /\ position' = position + 1
                  /\ KeepCall
                  /\ cmdsNext = cmds
                  /\ UNCHANGED <<stack, xMin, xMax, yMin, yMax,
                                 plotCmds, polygon, penCmdPrev>>
             [] symbol = "(" ->
                  LET h == getHeading(cmds, position)
                  IN  IF ~h.ok
                      THEN halt("getHeading",
                             "the specified angle is not syntactically well-formed")
                      ELSE /\ turtle' = [turtle EXCEPT !.HEADING = h.heading]
                           /\ position' = h.pos + 1
                           /\ KeepCall
                           /\ cmdsNext = cmds
                           /\ UNCHANGED <<stack, xMin, xMax, yMin,
                                          yMax, plotCmds, polygon, penCmdPrev>>
             [] symbol = "[" ->
                  /\ stack' = push(stack, turtle)
                  /\ position' = position + 1
                  /\ KeepCall
                  /\ KeepTurtle
                  /\ cmdsNext = cmds
                  /\ UNCHANGED <<plotCmds, polygon, penCmdPrev>>
             [] symbol = "]" ->
                  IF ~pop(stack).ok THEN panic /\ UNCHANGED <<rng, seed>>
                  ELSE LET t   == pop(stack).turtle
                           cnv == convert2Hpgl("f", <<t.X, t.Y>>, penCmdPrev)
                       IN  /\ turtle' = t
                           /\ stack' = pop(stack).stack
                           /\ plotCmds' = Append(plotCmds, cnv.pltCmd)
                           /\ penCmdPrev' = cnv.penCmdPrev
                           /\ position' = position + 1
                           /\ KeepCall
                           /\ cmdsNext = cmds
                           /\ UNCHANGED <<xMin, xMax, yMin, yMax,
                                          polygon>>
             [] symbol \in {"{", "}"} ->
                  LET cnv == convert2Hpgl(symbol, <<turtle.X, turtle.Y>>,
                                 penCmdPrev)
                  IN  /\ plotCmds' = Append(plotCmds, cnv.pltCmd)
                      /\ penCmdPrev' = cnv.penCmdPrev
                      /\ position' = position + 1
                      /\ KeepCall
                      /\ KeepTurtle
                      /\ cmdsNext = cmds
                      /\ UNCHANGED <<stack, polygon>>
             [] OTHER ->
                  /\ cmdsNext = removeVariable(symbol, cmds)
                  /\ KeepCall
                  /\ KeepTurtle
                  /\ UNCHANGED <<position, stack, plotCmds, polygon,
                                 penCmdPrev>>

logo2HpglStep ==
    /\ engine = "HpglPlot"
    /\ logo2HpglLoop(TurtleCmds, TurtleCmds')
    /\ UNCHANGED <<multiVars, xoVars>>
    /\ UNCHANGED derived
    /\ interpreted' =
          IF status' # "plotting" THEN <<>>
          ELSE interpreted \o SubSeq(TurtleCmds, position + 1, position')
    /\ handoffs' =
          IF status' \in {"idle", "halted", "panic"} THEN <<>>
          ELSE handoffs
    /\ visitedX' =
          IF status' # "plotting" THEN {}
          ELSE (IF status = "plotting" THEN visitedX ELSE {})
                  \cup {turtle'.X}
    /\ walked' =
          IF status' \in {"idle", "halted", "panic"} THEN <<>>
          ELSE walked
    /\ turns' = IF status' # "plotting" THEN 0 ELSE turns + 1
    /\ xoTurns' =
          IF status' \in {"idle", "halted", "panic"} THEN 0
          ELSE xoTurns
    /\ UNCHANGED hhVars

(* the loop is over: the closure returns the primitives (the HP-GL/2 text  *)
(* closed by ";") and the bounding box                                     *)
logo2Return ==
    /\ status = "plotting"
    /\ engine \in {"Plot", "HpglPlot"}
    /\ position >= Len(TurtleCmds)
    /\ status' = "plotted"
    /\ plotCmds' = IF engine = "HpglPlot"
                   THEN Append(plotCmds, [op |-> ";", pts |-> <<>>])
                   ELSE plotCmds
    /\ UNCHANGED <<TurtleCmds, engine, angle, position, turtle, stack, xMin,
                   xMax, yMin, yMax, polygon, penCmdPrev, engineVars, rng,
                   seed, msg, multiVars, xoVars>>
    /\ UNCHANGED derived
    /\ interpreted' =
          IF status' \in {"idle", "halted", "panic"} THEN <<>>
          ELSE interpreted
    /\ handoffs' =
          IF status' \in {"idle", "halted", "panic"} THEN <<>>
          ELSE handoffs
    /\ visitedX' =
          IF status' # "plotting" THEN {}
          ELSE (IF status = "plotting" THEN visitedX ELSE {})
                  \cup {turtle'.X}
    /\ walked' =
          IF status' \in {"idle", "halted", "panic"} THEN <<>>
          ELSE walked
    /\ turns' =
          IF status = "plotting" /\ status' = "plotting" THEN turns
          ELSE 0
    /\ xoTurns' =
          IF status' \in {"idle", "halted", "panic"} THEN 0
          ELSE xoTurns
    /\ UNCHANGED hhVars

(* Plot or HpglPlot has sent the commands out and returns *)
PlotReturn ==
    /\ status = "plotted"
    /\ engine \in {"Plot", "HpglPlot"}
    /\ status' = "idle"
    /\ engine' = "none"
    /\ NoLocals
    /\ UNCHANGED <<TurtleCmds, rng, seed, msg>>
    /\ UNCHANGED derived
    /\ interpreted' =
          IF status' \in {"idle", "halted", "panic"} THEN <<>>
          ELSE interpreted
    /\ handoffs' =
          IF status' \in {"idle", "halted", "panic"} THEN <<>>
          ELSE handoffs
    /\ visitedX' =
          IF status' # "plotting" THEN {}
          ELSE (IF status = "plotting" THEN visitedX ELSE {})
                  \cup {turtle'.X}
    /\ walked' =
          IF status' \in {"idle", "halted", "panic"} THEN <<>>
          ELSE walked
    /\ turns' =
          IF status = "plotting" /\ status' = "plotting" THEN turns
          ELSE 0
    /\ xoTurns' =
          IF status' \in {"idle", "halted", "panic"} THEN 0
          ELSE xoTurns
    /\ UNCHANGED hhVars

(* --------------- the closures as functions of their arguments ---------- *)
(* One call of the closure made by makeLogo2Gnuplot, as a function of the  *)
(* string *turtleCmds, xOrigin, angle and the box b the closure holds when *)
(* it is called.  A run is a record: ok ("ok", "halt" or "panic"), the     *)
(* string cmds as the call leaves it, pos, the turtle, the stack, the box, *)
(* the primitives out, and the state of the converter (polygon, or         *)
(* penCmdPrev for logo2Hpgl).                                              *)
BoxOf(mv) ==
    [xMin |-> mv.xMin, xMax |-> mv.xMax, yMin |-> mv.yMin, yMax |-> mv.yMax]

ZeroBox == [xMin |-> Zero, xMax |-> Zero, yMin |-> Zero, yMax |-> Zero]

(* one turn of the loop of logo2Gnuplot *)
logo2GnuplotTurn(c, a) ==
    LET symbol == c.cmds[c.pos + 1]
        here   == <<c.turtle.X, c.turtle.Y>>
        next   == [c EXCEPT !.pos = c.pos + 1]
    IN  CASE symbol \in {"F", "f"} ->
               LET mv  == forward(c.turtle, c.box)
                   cnv == convert2Gnuplot(symbol, here,
                              <<mv.turtle.X, mv.turtle.Y>>, c.polygon)
               IN  [next EXCEPT !.turtle = mv.turtle,
                                !.box = BoxOf(mv),
                                !.polygon = cnv.polygon,
                                !.out = IF cnv.pltCmd # NoCmd
                                        THEN Append(c.out, cnv.pltCmd)
                                        ELSE c.out]
          [] symbol \in {"+", "-", "|", "$"} ->
               [next EXCEPT !.turtle.HEADING = turn(symbol, @, a)]
          [] symbol = "(" ->
               LET h == getHeading(c.cmds, c.pos)
               IN  IF ~h.ok THEN [c EXCEPT !.ok = "halt"]
                   ELSE [c EXCEPT !.turtle.HEADING = h.heading,
                                  !.pos = h.pos + 1]
          [] symbol = "[" -> [next EXCEPT !.stack = push(c.stack, c.turtle)]
          [] symbol = "]" ->
               IF ~pop(c.stack).ok THEN [c EXCEPT !.ok = "panic"]
               ELSE [next EXCEPT !.turtle = pop(c.stack).turtle,
                                 !.stack = pop(c.stack).stack]
          [] symbol = "{" ->
               [next EXCEPT !.polygon =
                   convert2Gnuplot(symbol, here, here, c.polygon).polygon]
          [] symbol = "}" ->
               LET cnv == convert2Gnuplot(symbol, here, here, c.polygon)
               IN  [next EXCEPT !.out = Append(c.out, cnv.pltCmd),
                                !.polygon = cnv.polygon]
          [] OTHER -> [c EXCEPT !.cmds = removeVariable(symbol, c.cmds)]

RECURSIVE logo2GnuplotRun(_, _)
logo2GnuplotRun(c, a) ==
    IF c.ok # "ok" \/ c.pos >= Len(c.cmds) THEN c
    ELSE logo2GnuplotRun(logo2GnuplotTurn(c, a), a)

logo2Gnuplot(cmds, origin, a, b) ==
    logo2GnuplotRun([ok |-> "ok", cmds |-> removePointlessTurns(cmds),
                     pos |-> 0, turtle |-> _turtleStatus(0, origin, Zero),
                     stack |-> <<>>, box |-> b, out |-> <<>>,
                     polygon |-> <<>>], a)

(* one turn of the loop of logo2Hpgl *)
logo2HpglTurn(c, a) ==
    LET symbol == c.cmds[c.pos + 1]
        next   == [c EXCEPT !.pos = c.pos + 1]
    IN  CASE symbol \in {"F", "f"} ->
               LET mv  == forward(c.turtle, c.box)
                   cnv == convert2Hpgl(symbol, <<mv.turtle.X, mv.turtle.Y>>,
                              c.penCmdPrev)
               IN  [next EXCEPT !.turtle = mv.turtle,
                                !.box = BoxOf(mv),
                                !.penCmdPrev = cnv.penCmdPrev,
                                !.out = Append(c.out, cnv.pltCmd)]
          [] symbol \in {"+", "-", "|", "$"} ->
               [next EXCEPT !.turtle.HEADING = turn(symbol, @, a)]
          [] symbol = "(" ->
               LET h == getHeading(c.cmds, c.pos)
               IN  IF ~h.ok THEN [c EXCEPT !.ok = "halt"]
                   ELSE [c EXCEPT !.turtle.HEADING = h.heading,
                                  !.pos = h.pos + 1]
          [] symbol = "[" -> [next EXCEPT !.stack = push(c.stack, c.turtle)]
          [] symbol = "]" ->
               IF ~pop(c.stack).ok THEN [c EXCEPT !.ok = "panic"]
               ELSE LET t   == pop(c.stack).turtle
                        cnv == convert2Hpgl("f", <<t.X, t.Y>>, c.penCmdPrev)
                    IN  [next EXCEPT !.turtle = t,
                                     !.stack = pop(c.stack).stack,
                                     !.penCmdPrev = cnv.penCmdPrev,
                                     !.out = Append(c.out, cnv.pltCmd)]
          [] symbol \in {"{", "}"} ->
               LET cnv == convert2Hpgl(symbol, <<c.turtle.X, c.turtle.Y>>,
                              c.penCmdPrev)
               IN  [next EXCEPT !.penCmdPrev = cnv.penCmdPrev,
                                !.out = Append(c.out, cnv.pltCmd)]
          [] OTHER -> [c EXCEPT !.cmds = removeVariable(symbol, c.cmds)]

RECURSIVE logo2HpglRun(_, _)
logo2HpglRun(c, a) ==
    IF c.ok # "ok" THEN c
    ELSE IF c.pos >= Len(c.cmds)
         THEN [c EXCEPT !.out = Append(c.out, [op |-> ";", pts |-> <<>>])]
    ELSE logo2HpglRun(logo2HpglTurn(c, a), a)

logo2Hpgl(cmds, origin, a, b) ==
    logo2HpglRun([ok |-> "ok", cmds |-> removePointlessTurns(cmds),
                  pos |-> 0, turtle |-> _turtleStatus(0, origin, Zero),
                  stack |-> <<>>, box |-> b,
                  out |-> <<convert2Hpgl("f", <<origin, Zero>>, "").pltCmd>>,
                  penCmdPrev |->
                      convert2Hpgl("f", <<origin, Zero>>, "").penCmdPrev], a)

(* TurtleCmds is an exported variable; it holds "" until an engine or the  *)
(* caller has set it (Deterministic of order 0 sets it to any axiom)       *)
PlotInit ==
    /\ TurtleCmds \in TurtleInputs
    /\ status = "idle"
    /\ engine = "none"
    /\ order = 0
    /\ axiom = <<>>
    /\ replacer = <<>>
    /\ rules = <<>>
    /\ ruleMap = <<>>
    /\ weights = <<>>
    /\ selectors = <<>>
    /\ n = 0
    /\ seed = 0
    /\ rng = seed
    /\ msg = ""
    /\ NoPlot
    /\ NoMulti
    /\ derived = TurtleCmds
    /\ interpreted = <<>>
    /\ handoffs = <<>>
    /\ visitedX = {}
    /\ walked = <<>>
    /\ turns = 0
    /\ xoTurns = 0
    /\ NoHandoff

PlotNext ==
    \/ \E a \in PlotAngles, c \in PlotColors : PlotCall(a, c)
    \/ \E a \in PlotAngles, f \in HpglPaths : HpglPlotCall(a, f)
    \/ logo2GnuplotStep
    \/ logo2HpglStep
    \/ logo2Return
    \/ PlotReturn

PlotSpec == PlotInit /\ [][PlotNext]_vars

(* --------------------- MultiPlot and HpglMultiPlot --------------------- *)
(* The subplots are interpreted one after the other by one closure, whose  *)
(* bounding box therefore lasts for the whole call.  Before subplot k is   *)
(* interpreted the commands and the angle of subplot k+1 are sent to the   *)
(* coroutine calcXoffset over unbuffered channels; the coroutine walks     *)
(* them while the main routine interprets subplot k, and sends back the    *)
(* offset of subplot k+1.                                                  *)
xNudge == 2

(* the float64 of an integer *)
Real(i) == <<2 * i, 0>>

(* calcXoffset, the turn of the loop that counts "{" as a saved turtle *)
calcXoffsetTurnBraces(cmds, pos, t, st, xm, a) ==
    LET symbol == cmds[pos + 1]
        keep   == [ok |-> "ok", cmds |-> cmds, pos |-> pos + 1, turtle |-> t,
                   stack |-> st, xMin |-> xm]
    IN  CASE symbol \in {"F", "f"} ->
               LET x == Plus(t.X, MathCos(t.HEADING))
               IN  [keep EXCEPT !.turtle = [t EXCEPT !.X = x],
                                !.xMin = MathMin(xm, x)]
          [] symbol \in {"+", "-", "|", "$"} ->
               [keep EXCEPT !.turtle =
                               [t EXCEPT !.HEADING = turn(symbol, @, a)]]
          [] symbol = "(" ->
               LET h == getHeading(cmds, pos)
               IN  IF ~h.ok THEN [keep EXCEPT !.ok = "halt"]
                   ELSE [keep EXCEPT
                           !.turtle = [t EXCEPT !.HEADING = h.heading],
                           !.pos = h.pos + 1]
          [] symbol \in {"[", "{"} -> [keep EXCEPT !.stack = push(st, t)]
          [] symbol \in {"]", "}"} ->
               IF ~pop(st).ok THEN [keep EXCEPT !.ok = "panic"]
               ELSE [keep EXCEPT !.turtle = pop(st).turtle,
                                 !.stack = pop(st).stack]
          [] OTHER ->
               [keep EXCEPT !.cmds = removeVariable(symbol, cmds),
                            !.pos = pos]

(* calcXoffset, the turn of the loop without the pos-- of the removal *)
calcXoffsetTurnNoBackstep(cmds, pos, t, st, xm, a) ==
    LET symbol == cmds[pos + 1]
        keep   == [ok |-> "ok", cmds |-> cmds, pos |-> pos + 1, turtle |-> t,
                   stack |-> st, xMin |-> xm]
    IN  CASE symbol \in {"F", "f"} ->
               LET m == MathMod(t.HEADING, 360)
               IN  CASE m = 0 ->
                          [keep EXCEPT !.turtle = [t EXCEPT !.X = Plus(@, One)]]
                     [] m \in {90, -270, 270, -90} -> keep
                     [] m \in {180, -180} ->
                          LET x == Minus(t.X, One)
                          IN  [keep EXCEPT !.turtle = [t EXCEPT !.X = x],
                                           !.xMin = MathMin(xm, x)]
                     [] OTHER ->
                          LET x == Plus(t.X, MathCos(t.HEADING))
                          IN  [keep EXCEPT !.turtle = [t EXCEPT !.X = x],
                                           !.xMin = MathMin(xm, x)]
          [] symbol \in {"+", "-", "|", "$"} ->
               [keep EXCEPT !.turtle =
                               [t EXCEPT !.HEADING = turn(symbol, @, a)]]
          [] symbol = "(" ->
               LET h == getHeading(cmds, pos)
               IN  IF ~h.ok THEN [keep EXCEPT !.ok = "halt"]
                   ELSE [keep EXCEPT
                           !.turtle = [t EXCEPT !.HEADING = h.heading],
                           !.pos = h.pos + 1]
          [] symbol = "[" -> [keep EXCEPT !.stack = push(st, t)]
          [] symbol = "]" ->
               IF ~pop(st).ok THEN [keep EXCEPT !.ok = "panic"]
               ELSE [keep EXCEPT !.turtle = pop(st).turtle,
                                 !.stack = pop(st).stack]
          [] symbol \in {"{", "}"} -> keep
          [] OTHER ->
               [keep EXCEPT !.cmds = removeVariable(symbol, cmds)]

(* calcXoffset, the turn of the loop that keeps xMin in a move due west *)
calcXoffsetTurnNoMin(cmds, pos, t, st, xm, a) ==
    LET symbol == cmds[pos + 1]
        keep   == [ok |-> "ok", cmds |-> cmds, pos |-> pos + 1, turtle |-> t,
                   stack |-> st, xMin |-> xm]
    IN  CASE symbol \in {"F", "f"} ->
               LET m == MathMod(t.HEADING, 360)
               IN  CASE m = 0 ->
                          [keep EXCEPT !.turtle = [t EXCEPT !.X = Plus(@, One)]]
                     [] m \in {90, -270, 270, -90} -> keep
                     [] m \in {180, -180} ->
                          LET x == Minus(t.X, One)
                          IN  [keep EXCEPT !.turtle = [t EXCEPT !.X = x]]
                     [] OTHER ->
                          LET x == Plus(t.X, MathCos(t.HEADING))
                          IN  [keep EXCEPT !.turtle = [t EXCEPT !.X = x],
                                           !.xMin = MathMin(xm, x)]
          [] symbol \in {"+", "-", "|", "$"} ->
               [keep EXCEPT !.turtle =
                               [t EXCEPT !.HEADING = turn(symbol, @, a)]]
          [] symbol = "(" ->
               LET h == getHeading(cmds, pos)
               IN  IF ~h.ok THEN [keep EXCEPT !.ok = "halt"]
                   ELSE [keep EXCEPT
                           !.turtle = [t EXCEPT !.HEADING = h.heading],
                           !.pos = h.pos + 1]
          [] symbol = "[" -> [keep EXCEPT !.stack = push(st, t)]
          [] symbol = "]" ->
               IF ~pop(st).ok THEN [keep EXCEPT !.ok = "panic"]
               ELSE [keep EXCEPT !.turtle = pop(st).turtle,
                                 !.stack = pop(st).stack]
          [] symbol \in {"{", "}"} -> keep
          [] OTHER ->
               [keep EXCEPT !.cmds = removeVariable(symbol, cmds),
                            !.pos = pos]

(* calcXoffset, one turn of the loop over the symbols: the string, the     *)
(* position, the turtle, the stack and xMin after it; ok is "halt" when    *)
(* getHeading halts and "panic" when pop indexes an empty stack.  Only the *)
(* heading and the x ordinate of the turtle are computed.                  *)
calcXoffsetTurn(cmds, pos, t, st, xm, a) ==
    LET symbol == cmds[pos + 1]
        keep   == [ok |-> "ok", cmds |-> cmds, pos |-> pos + 1, turtle |-> t,
                   stack |-> st, xMin |-> xm]
    IN  CASE symbol \in {"F", "f"} ->
               LET m == MathMod(t.HEADING, 360)
               IN  CASE m = 0 ->
                          [keep EXCEPT !.turtle = [t EXCEPT !.X = Plus(@, One)]]
                     [] m \in {90, -270, 270, -90} -> keep
                     [] m \in {180, -180} ->
                          LET x == Minus(t.X, One)
                          IN  [keep EXCEPT !.turtle = [t EXCEPT !.X = x],
                                           !.xMin = MathMin(xm, x)]
                     [] OTHER ->
                          LET x == Plus(t.X, MathCos(t.HEADING))
                          IN  [keep EXCEPT !.turtle = [t EXCEPT !.X = x],
                                           !.xMin = MathMin(xm, x)]
          [] symbol \in {"+", "-", "|", "$"} ->
               [keep EXCEPT !.turtle =
                               [t EXCEPT !.HEADING = turn(symbol, @, a)]]
          [] symbol = "(" ->
               LET h == getHeading(cmds, pos)
               IN  IF ~h.ok THEN [keep EXCEPT !.ok = "halt"]
                   ELSE [keep EXCEPT
                           !.turtle = [t EXCEPT !.HEADING = h.heading],
                           !.pos = h.pos + 1]
          [] symbol = "[" -> [keep EXCEPT !.stack = push(st, t)]
          [] symbol = "]" ->
               IF ~pop(st).ok THEN [keep EXCEPT !.ok = "panic"]
               ELSE [keep EXCEPT !.turtle = pop(st).turtle,
                                 !.stack = pop(st).stack]
          [] symbol \in {"{", "}"} -> keep
          [] OTHER ->
               [keep EXCEPT !.cmds = removeVariable(symbol, cmds),
                            !.pos = pos]

(* the offset calcXoffset sends: math.Abs(xMin) + xNudge *)
xOffsetOf(xm) == Plus(MathAbs(xm), Real(xNudge))

(* the origin of the next subplot taken from the origin of this one *)
nextOriginFromOrigin(origin, right, offset) == Plus(origin, offset)

(* xOrigin = xMax + <-xOffset *)
nextOrigin(origin, right, offset) == Plus(right, offset)

(* ------------------------------ inputs --------------------------------- *)
MultiArgs(c, a, l) == [turtleCmds |-> c, turtleAngles |-> a, labels |-> l]

MultiInputs ==
    { MultiArgs(<< <<"F">>, <<"+", "F">>, <<"F">> >>, <<90, 90, 90>>,
                <<"a", "", "c">>),
      MultiArgs(<< <<"F">>, <<"F">> >>, <<90, 90>>, <<"", "">>),
      MultiArgs(<< <<"F">>, <<"|", "F">>, <<"F">> >>, <<90, 90, 90>>,
                <<"", "b", "">>),
      MultiArgs(<< <<"F", "[", "+", "F", "]">>,
                   <<"[", "|", "F", "]", "F">> >>, <<90, 90>>, <<"a", "b">>),
      MultiArgs(<< <<"-", "F", "+", "F">>,
                   <<"[", "f", "]", "{", "|", "F", "F", "}", "F">> >>,
                <<60, 90>>,
                <<"a", "b">>),
      MultiArgs(<< <<"F", "X">>,
                   <<"X", "-", "F", "(", "1", "8", "0", ")", "F">> >>,
                <<90, 90>>, <<"a", "b">>),
      MultiArgs(<< <<"F">>, <<"(", "1", "8", "0", ")", "8", "|", "F">> >>,
                <<90, 90>>, <<"", "">>),
      MultiArgs(<< <<"[", "F">>, <<"[", "F", "]", "|", "F">>,
                   <<"+", "-", "F">> >>, <<90, 90, 90>>, <<"", "", "">>),
      MultiArgs(<< <<"+", "F">>, <<"|", "-", "F">>, <<"F">> >>,
                <<60, 60, 60>>, <<"", "", "">>),
      MultiArgs(<< <<"F", "+", "F", "+", "F", "+", "F">> >>, <<90>>, <<"a">>),
      MultiArgs(<< <<"F">>, <<"F", "]", "F">> >>, <<90, 90>>, <<"", "">>),
      MultiArgs(<< <<"]">>, <<"F">> >>, <<90, 90>>, <<"", "">>),
      MultiArgs(<< <<"F">>, <<"(", "F", ")">> >>, <<90, 90>>, <<"", "">>),
      MultiArgs(<< <<"F">>, <<")", "|", "F">> >>, <<90, 90>>, <<"", "">>),
      MultiArgs(<< <<"F">>, <<"F">> >>, <<90, 90, 60>>, <<"a", "b", "c">>),
      MultiArgs(<<>>, <<90>>, <<"a">>),
      MultiArgs(<< <<"F">> >>, <<>>, <<"a">>),
      MultiArgs(<< <<"F">> >>, <<90>>, <<>>),
      MultiArgs(<< <<"F">>, <<"F">> >>, <<90>>, <<"a", "b">>),
      MultiArgs(<< <<"F">>, <<"F">> >>, <<90, 90>>, <<"a">>) }

MultiColors == {"black", "noir"}

(* ------------------------------ MultiPlot ------------------------------ *)
MultiEngines == {"MultiPlot", "HpglMultiPlot"}

MultiCheck(in) ==
    IF Len(in.turtleCmds) = 0 THEN "the turtle commands were not specified"
    ELSE IF Len(in.turtleAngles) = 0 THEN "the turtle angles were not stated"
    ELSE IF Len(in.labels) = 0 THEN "the labels were not specified"
    ELSE IF Len(in.turtleAngles) < Len(in.turtleCmds)
         THEN "fewer turtle angles specified than the number of commands"
    ELSE IF Len(in.labels) < Len(in.turtleCmds)
         THEN "fewer labels specified than the number of commands"
    ELSE ""

(* the checks have passed: the coroutine is launched and the loop over the *)
(* subplots begins with k = 0, v = turtleCmds[0] and xOrigin = 0           *)
multiStart(caller, in) ==
    /\ status' = "looping"
    /\ engine' = caller
    /\ turtleCmds' = in.turtleCmds
    /\ turtleAngles' = in.turtleAngles
    /\ labels' = in.labels
    /\ subplotK' = 0
    /\ subplotV' = in.turtleCmds[1]
    /\ xOrigin' = Zero
    /\ canvas' = <<>>
    /\ xoStatus' = "waiting"
    /\ UNCHANGED <<xoCmds, xoAngle, xoTurtle, xoStack, xoMin, xoPos>>
    /\ UNCHANGED <<TurtleCmds, engineVars, plotVars, rng, seed, msg>>

MultiPlotCall(in, lineColor) ==
    /\ status = "idle"
    /\ IF MultiCheck(in) # "" THEN halt("MultiPlot", MultiCheck(in))
       ELSE IF ~validFgColor(lineColor)
            THEN halt("MultiPlot", "the color name is not valid")
       ELSE multiStart("MultiPlot", in)
    /\ UNCHANGED derived
    /\ interpreted' = <<>>
    /\ handoffs' =
          IF status' \in {"idle", "halted", "panic"} THEN <<>>
          ELSE handoffs
    /\ visitedX' =
          IF status' # "plotting" THEN {}
          ELSE (IF status = "plotting" THEN visitedX ELSE {})
                  \cup {turtle'.X}
    /\ walked' =
          IF status' \in {"idle", "halted", "panic"} THEN <<>>
          ELSE walked
    /\ turns' =
          IF status = "plotting" /\ status' = "plotting" THEN turns
          ELSE 0
    /\ xoTurns' =
          IF status' \in {"idle", "halted", "panic"} THEN 0
          ELSE xoTurns
    /\ UNCHANGED hhVars

HpglMultiPlotCall(in, hpglPath) ==
    /\ status = "idle"
    /\ IF MultiCheck(in) # "" THEN halt("HpglMultiPlot", MultiCheck(in))
       ELSE IF hpglPath = ""
            THEN halt("HpglMultiPlot",
                      "the path for the plot was not specified")
       ELSE multiStart("HpglMultiPlot", in)
    /\ UNCHANGED derived
    /\ interpreted' = <<>>
    /\ handoffs' =
          IF status' \in {"idle", "halted", "panic"} THEN <<>>
          ELSE handoffs
    /\ visitedX' =
          IF status' # "plotting" THEN {}
          ELSE (IF status = "plotting" THEN visitedX ELSE {})
                  \cup {turtle'.X}
    /\ walked' =
          IF status' \in {"idle", "halted", "panic"} THEN <<>>
          ELSE walked
    /\ turns' =
          IF status = "plotting" /\ status' = "plotting" THEN turns
          ELSE 0
    /\ xoTurns' =
          IF status' \in {"idle", "halted", "panic"} THEN 0
          ELSE xoTurns
    /\ UNCHANGED hhVars

(* commands<- turtleCmds[k] instead *)
MultiSendCommandsCurrent ==
    /\ status = "looping"
    /\ subplotK + 1 < Len(turtleCmds)
    /\ xoStatus = "waiting"
    /\ xoCmds' = removePointlessTurns(turtleCmds[subplotK + 1])
    /\ xoStatus' = "angle"
    /\ status' = "sendAngle"
    /\ UNCHANGED <<xoAngle, xoTurtle, xoStack, xoMin, xoPos>>
    /\ UNCHANGED <<TurtleCmds, engine, engineVars, plotVars, multiVars, rng,
                   seed, msg>>
    /\ UNCHANGED derived
    /\ interpreted' =
          IF status' \in {"idle", "halted", "panic"} THEN <<>>
          ELSE interpreted
    /\ handoffs' = Append(handoffs, "commands")
    /\ visitedX' =
          IF status' # "plotting" THEN {}
          ELSE (IF status = "plotting" THEN visitedX ELSE {})
                  \cup {turtle'.X}
    /\ walked' = <<>>
    /\ turns' =
          IF status = "plotting" /\ status' = "plotting" THEN turns
          ELSE 0
    /\ xoTurns' =
          IF status' \in {"idle", "halted", "panic"} THEN 0
          ELSE xoTurns
    /\ UNCHANGED hhVars

(* commands<- turtleCmds[k+1], received by the range loop of calcXoffset,  *)
(* which removes the pointless turns from its copy                         *)
MultiSendCommands ==
    /\ status = "looping"
    /\ subplotK + 1 < Len(turtleCmds)
    /\ xoStatus = "waiting"
    /\ xoCmds' = removePointlessTurns(turtleCmds[subplotK + 2])
    /\ xoStatus' = "angle"
    /\ status' = "sendAngle"
    /\ UNCHANGED <<xoAngle, xoTurtle, xoStack, xoMin, xoPos>>
    /\ UNCHANGED <<TurtleCmds, engine, engineVars, plotVars, multiVars, rng,
                   seed, msg>>
    /\ UNCHANGED derived
    /\ interpreted' =
          IF status' \in {"idle", "halted", "panic"} THEN <<>>
          ELSE interpreted
    /\ handoffs' = Append(handoffs, "commands")
    /\ visitedX' =
          IF status' # "plotting" THEN {}
          ELSE (IF status = "plotting" THEN visitedX ELSE {})
                  \cup {turtle'.X}
    /\ walked' = <<>>
    /\ turns' =
          IF status = "plotting" /\ status' = "plotting" THEN turns
          ELSE 0
    /\ xoTurns' =
          IF status' \in {"idle", "halted", "panic"} THEN 0
          ELSE xoTurns
    /\ UNCHANGED hhVars

(* angle<- turtleAngles[k+1], received by calcXoffset, which then resets   *)
(* the heading and the x ordinate of its turtle, xMin and pos              *)
MultiSendAngle ==
    /\ status = "sendAngle"
    /\ xoStatus = "angle"
    /\ xoAngle' = turtleAngles[subplotK + 2]
    /\ xoTurtle' = [xoTurtle EXCEPT !.HEADING = 0, !.X = Zero]
    /\ xoMin' = Zero
    /\ xoPos' = 0
    /\ xoStatus' = "walking"
    /\ status' = "starting"
    /\ UNCHANGED <<xoCmds, xoStack>>
    /\ UNCHANGED <<TurtleCmds, engine, engineVars, plotVars, multiVars, rng,
                   seed, msg>>
    /\ UNCHANGED derived
    /\ interpreted' =
          IF status' \in {"idle", "halted", "panic"} THEN <<>>
          ELSE interpreted
    /\ handoffs' = Append(handoffs, "productionAngle")
    /\ visitedX' =
          IF status' # "plotting" THEN {}
          ELSE (IF status = "plotting" THEN visitedX ELSE {})
                  \cup {turtle'.X}
    /\ walked' =
          IF status' \in {"idle", "halted", "panic"} THEN <<>>
          ELSE walked
    /\ turns' =
          IF status = "plotting" /\ status' = "plotting" THEN turns
          ELSE 0
    /\ xoTurns' = 0
    /\ UNCHANGED hhVars

(* the label of subplot k, if any, and the call of the closure with &v,    *)
(* xOrigin and turtleAngles[k]: the turtle starts at (xOrigin, 0) with     *)
(* heading 0, the stack and the converter are new, the box is the one the  *)
(* closure was left with                                                   *)
MultiSubplot ==
    /\ \/ status = "starting"
       \/ status = "looping" /\ subplotK + 1 >= Len(turtleCmds)
    /\ status' = "plotting"
    /\ canvas' =
          IF labels[subplotK + 1] = "" THEN canvas
          ELSE Append(canvas,
                      [op |-> "label",
                       pts |-> << <<xOrigin,
                                    IF engine = "MultiPlot" THEN Zero
                                    ELSE Minus(Zero, One)>> >>])
    /\ angle' = turtleAngles[subplotK + 1]
    /\ subplotV' = removePointlessTurns(subplotV)
    /\ position' = 0
    /\ turtle' = _turtleStatus(0, xOrigin, Zero)
    /\ stack' = <<>>
    /\ polygon' = <<>>
    /\ plotCmds' =
          IF engine = "MultiPlot" THEN <<>>
          ELSE <<convert2Hpgl("f", <<xOrigin, Zero>>, "").pltCmd>>
    /\ penCmdPrev' =
          IF engine = "MultiPlot" THEN ""
          ELSE convert2Hpgl("f", <<xOrigin, Zero>>, "").penCmdPrev
    /\ UNCHANGED <<xMin, xMax, yMin, yMax>>
    /\ UNCHANGED <<turtleCmds, turtleAngles, labels, subplotK, xOrigin>>
    /\ UNCHANGED <<TurtleCmds, engine, engineVars, xoVars, rng, seed, msg>>
    /\ UNCHANGED derived
    /\ interpreted' = <<>>
    /\ handoffs' =
          IF status' \in {"idle", "halted", "panic"} THEN <<>>
          ELSE handoffs
    /\ visitedX' =
          IF status' # "plotting" THEN {}
          ELSE (IF status = "plotting" THEN visitedX ELSE {})
                  \cup {turtle'.X}
    /\ walked' =
          IF status' \in {"idle", "halted", "panic"} THEN <<>>
          ELSE walked
    /\ turns' =
          IF status = "plotting" /\ status' = "plotting" THEN turns
          ELSE 0
    /\ xoTurns' =
          IF status' \in {"idle", "halted", "panic"} THEN 0
          ELSE xoTurns
    /\ UNCHANGED hhVars

(* what a turn of the closure's loop leaves alone in a multi-plot *)
KeepMulti ==
    UNCHANGED <<TurtleCmds, turtleCmds, turtleAngles, labels, subplotK,
                xOrigin, canvas, xoVars>>

MultiGnuplotStep ==
    /\ engine = "MultiPlot"
    /\ logo2GnuplotLoop(subplotV, subplotV')
    /\ IF status' = "plotting" THEN KeepMulti ELSE TRUE
    /\ UNCHANGED derived
    /\ interpreted' =
          IF status' # "plotting" THEN <<>>
          ELSE interpreted \o SubSeq(subplotV, position + 1, position')
    /\ handoffs' =
          IF status' \in {"idle", "halted", "panic"} THEN <<>>
          ELSE handoffs
    /\ visitedX' =
          IF status' # "plotting" THEN {}
          ELSE (IF status = "plotting" THEN visitedX ELSE {})
                  \cup {turtle'.X}
    /\ walked' =
          IF status' \in {"idle", "halted", "panic"} THEN <<>>
          ELSE walked
    /\ turns' = IF status' # "plotting" THEN 0 ELSE turns + 1
    /\ xoTurns' =
          IF status' \in {"idle", "halted", "panic"} THEN 0
          ELSE xoTurns
    /\ UNCHANGED hhVars

MultiHpglStep ==
    /\ engine = "HpglMultiPlot"
    /\ logo2HpglLoop(subplotV, subplotV')
    /\ IF status' = "plotting" THEN KeepMulti ELSE TRUE
    /\ UNCHANGED derived
    /\ interpreted' =
          IF status' # "plotting" THEN <<>>
          ELSE interpreted \o SubSeq(subplotV, position + 1, position')
    /\ handoffs' =
          IF status' \in {"idle", "halted", "panic"} THEN <<>>
          ELSE handoffs
    /\ visitedX' =
          IF status' # "plotting" THEN {}
          ELSE (IF status = "plotting" THEN visitedX ELSE {})
                  \cup {turtle'.X}
    /\ walked' =
          IF status' \in {"idle", "halted", "panic"} THEN <<>>
          ELSE walked
    /\ turns' = IF status' # "plotting" THEN 0 ELSE turns + 1
    /\ xoTurns' =
          IF status' \in {"idle", "halted", "panic"} THEN 0
          ELSE xoTurns
    /\ UNCHANGED hhVars

(* the closure returns the primitives of subplot k, which are added to the *)
(* commands of the plot, and the bounding box                              *)
MultiSubplotReturn ==
    /\ status = "plotting"
    /\ engine \in MultiEngines
    /\ position >= Len(subplotV)
    /\ plotCmds' = IF engine = "HpglMultiPlot"
                   THEN Append(plotCmds, [op |-> ";", pts |-> <<>>])
                   ELSE plotCmds
    /\ canvas' = canvas \o plotCmds'
    /\ status' = IF subplotK + 1 < Len(turtleCmds) THEN "receiving"
                 ELSE "plotted"
    /\ UNCHANGED <<angle, position, turtle, stack, xMin, xMax, yMin, yMax,
                   polygon, penCmdPrev>>
    /\ UNCHANGED <<turtleCmds, turtleAngles, labels, subplotK, subplotV,
                   xOrigin>>
    /\ UNCHANGED <<TurtleCmds, engine, engineVars, xoVars, rng, seed, msg>>
    /\ UNCHANGED derived
    /\ interpreted' =
          IF status' \in {"idle", "halted", "panic"} THEN <<>>
          ELSE interpreted
    /\ handoffs' =
          IF status' \in {"idle", "halted", "panic"} THEN <<>>
          ELSE handoffs
    /\ visitedX' =
          IF status' # "plotting" THEN {}
          ELSE (IF status = "plotting" THEN visitedX ELSE {})
                  \cup {turtle'.X}
    /\ walked' =
          IF status' \in {"idle", "halted", "panic"} THEN <<>>
          ELSE walked
    /\ turns' =
          IF status = "plotting" /\ status' = "plotting" THEN turns
          ELSE 0
    /\ xoTurns' =
          IF status' \in {"idle", "halted", "panic"} THEN 0
          ELSE xoTurns
    /\ UNCHANGED hhVars

(* xOrigin = xMax + <-xOffset, and the loop goes on with subplot k+1 *)
MultiReceive ==
    /\ status = "receiving"
    /\ xoStatus = "sending"
    /\ xOrigin' = nextOrigin(xOrigin, xMax, xOffsetOf(xoMin))
    /\ subplotK' = subplotK + 1
    /\ subplotV' = turtleCmds[subplotK + 2]
    /\ status' = "looping"
    /\ xoStatus' = "waiting"
    /\ UNCHANGED <<xoCmds, xoAngle, xoTurtle, xoStack, xoMin, xoPos>>
    /\ UNCHANGED <<turtleCmds, turtleAngles, labels, canvas>>
    /\ UNCHANGED <<TurtleCmds, engine, engineVars, plotVars, rng, seed, msg>>
    /\ UNCHANGED derived
    /\ interpreted' =
          IF status' \in {"idle", "halted", "panic"} THEN <<>>
          ELSE interpreted
    /\ handoffs' = Append(handoffs, "xOffset")
    /\ visitedX' =
          IF status' # "plotting" THEN {}
          ELSE (IF status = "plotting" THEN visitedX ELSE {})
                  \cup {turtle'.X}
    /\ walked' =
          IF status' \in {"idle", "halted", "panic"} THEN <<>>
          ELSE walked
    /\ turns' =
          IF status = "plotting" /\ status' = "plotting" THEN turns
          ELSE 0
    /\ xoTurns' =
          IF status' \in {"idle", "halted", "panic"} THEN 0
          ELSE xoTurns
    /\ UNCHANGED hhVars

(* one turn of the loop of calcXoffset over the symbols *)
calcXoffsetStep ==
    /\ xoStatus = "walking"
    /\ xoPos < Len(xoCmds)
    /\ LET r == calcXoffsetTurn(xoCmds, xoPos, xoTurtle, xoStack, xoMin,
                                xoAngle)
       IN  IF r.ok = "halt"
           THEN halt("getHeading",
                     "the specified angle is not syntactically well-formed")
           ELSE IF r.ok = "panic" THEN panic /\ UNCHANGED <<rng, seed>>
           ELSE /\ xoCmds' = r.cmds
                /\ xoPos' = r.pos
                /\ xoTurtle' = r.turtle
                /\ xoStack' = r.stack
                /\ xoMin' = r.xMin
                /\ UNCHANGED <<xoStatus, xoAngle>>
                /\ UNCHANGED <<TurtleCmds, status, engine, engineVars,
                               plotVars, multiVars, rng, seed, msg>>
    /\ UNCHANGED derived
    /\ interpreted' =
          IF status' \in {"idle", "halted", "panic"} THEN <<>>
          ELSE interpreted
    /\ handoffs' =
          IF status' \in {"idle", "halted", "panic"} THEN <<>>
          ELSE handoffs
    /\ visitedX' =
          IF status' # "plotting" THEN {}
          ELSE (IF status = "plotting" THEN visitedX ELSE {})
                  \cup {turtle'.X}
    /\ walked' =
          IF status' \in {"idle", "halted", "panic"} THEN <<>>
          ELSE walked \o SubSeq(xoCmds, xoPos + 1, xoPos')
    /\ turns' =
          IF status = "plotting" /\ status' = "plotting" THEN turns
          ELSE 0
    /\ xoTurns' =
          IF status' \in {"idle", "halted", "panic"} THEN 0
          ELSE xoTurns + 1
    /\ UNCHANGED hhVars

(* the walk is over: calcXoffset is ready to send the offset *)
calcXoffsetDone ==
    /\ xoStatus = "walking"
    /\ xoPos >= Len(xoCmds)
    /\ xoStatus' = "sending"
    /\ UNCHANGED <<xoCmds, xoAngle, xoTurtle, xoStack, xoMin, xoPos>>
    /\ UNCHANGED <<TurtleCmds, status, engine, engineVars, plotVars,
                   multiVars, rng, seed, msg>>
    /\ UNCHANGED derived
    /\ interpreted' =
          IF status' \in {"idle", "halted", "panic"} THEN <<>>
          ELSE interpreted
    /\ handoffs' =
          IF status' \in {"idle", "halted", "panic"} THEN <<>>
          ELSE handoffs
    /\ visitedX' =
          IF status' # "plotting" THEN {}
          ELSE (IF status = "plotting" THEN visitedX ELSE {})
                  \cup {turtle'.X}
    /\ walked' =
          IF status' \in {"idle", "halted", "panic"} THEN <<>>
          ELSE walked
    /\ turns' =
          IF status = "plotting" /\ status' = "plotting" THEN turns
          ELSE 0
    /\ xoTurns' =
          IF status' \in {"idle", "halted", "panic"} THEN 0
          ELSE xoTurns
    /\ UNCHANGED hhVars

(* the commands are sent out, the channel commands is closed, which ends   *)
(* the coroutine, and the call returns                                     *)
MultiReturn ==
    /\ status = "plotted"
    /\ engine \in MultiEngines
    /\ status' = "idle"
    /\ engine' = "none"
    /\ NoLocals
    /\ UNCHANGED <<TurtleCmds, rng, seed, msg>>
    /\ UNCHANGED derived
    /\ interpreted' =
          IF status' \in {"idle", "halted", "panic"} THEN <<>>
          ELSE interpreted
    /\ handoffs' =
          IF status' \in {"idle", "halted", "panic"} THEN <<>>
          ELSE handoffs
    /\ visitedX' =
          IF status' # "plotting" THEN {}
          ELSE (IF status = "plotting" THEN visitedX ELSE {})
                  \cup {turtle'.X}
    /\ walked' =
          IF status' \in {"idle", "halted", "panic"} THEN <<>>
          ELSE walked
    /\ turns' =
          IF status = "plotting" /\ status' = "plotting" THEN turns
          ELSE 0
    /\ xoTurns' =
          IF status' \in {"idle", "halted", "panic"} THEN 0
          ELSE xoTurns
    /\ UNCHANGED hhVars

MultiInit ==
    /\ Init
    /\ seed = 0

MultiNext ==
    \/ \E in \in MultiInputs, c \in MultiColors : MultiPlotCall(in, c)
    \/ \E in \in MultiInputs, f \in HpglPaths : HpglMultiPlotCall(in, f)
    \/ MultiSendCommands
    \/ MultiSendAngle
    \/ MultiSubplot
    \/ MultiGnuplotStep
    \/ MultiHpglStep
    \/ MultiSubplotReturn
    \/ MultiReceive
    \/ calcXoffsetStep
    \/ calcXoffsetDone
    \/ MultiReturn

MultiSpec == MultiInit /\ [][MultiNext]_vars

(* the multi-plots when the routine that can take a turn of its loop       *)
(* eventually takes it: the scheduler of Go leaves no runnable goroutine   *)
(* waiting for ever                                                        *)
FairMultiSpec ==
    /\ MultiSpec
    /\ WF_vars(MultiGnuplotStep)
    /\ WF_vars(MultiHpglStep)
    /\ WF_vars(calcXoffsetStep)

(* ------------- HogewegHesper and its coroutines, step by step ---------- *)
(* A send and the receive it meets are one step of both routines, the      *)
(* channels being unbuffered.  A search is one step of its coroutine.      *)
(* halt and a panic end the process, whichever routine they happen in.     *)
NoHandoffNext ==
    /\ chan4LHS' = "none"
    /\ chan4RHS' = "none"
    /\ hhPc' = "off"
    /\ hhPos' = 0
    /\ newCmds' = <<>>
    /\ contextLHS' = <<>>
    /\ coLHS' = CoOff
    /\ coRHS' = CoOff

(* the history variables in a step of HogewegHesper: h is the log *)
HandoffHistory(h) ==
    /\ derived' = TurtleCmds'
    /\ interpreted' = <<>>
    /\ handoffs' = h
    /\ visitedX' = {}
    /\ walked' = <<>>
    /\ turns' = 0
    /\ xoTurns' = 0

(* what a step of the call leaves alone *)
KeepHandoffCall ==
    UNCHANGED <<status, engine, order, axiom, replacer, rules, ruleMap,
                weights, selectors, rng, seed, msg, plotVars, multiVars,
                xoVars>>

(* the checks, make(chan string) twice, the two go statements and          *)
(* TurtleCmds = axiom.  The coroutines of the call before have ended.      *)
HandoffCall(o, a, r) ==
    /\ status = "idle"
    /\ coLHS.pc \in {"off", "done"}
    /\ coRHS.pc \in {"off", "done"}
    /\ IF HogewegHesperCheck(o, a, r) # ""
       THEN /\ halt("HogewegHesper", HogewegHesperCheck(o, a, r))
            /\ NoHandoffNext
       ELSE /\ engine' = "HogewegHesper"
            /\ order' = o
            /\ axiom' = a
            /\ replacer' = <<>>
            /\ rules' = <<>>
            /\ ruleMap' = r
            /\ weights' = <<>>
            /\ selectors' = <<>>
            /\ TurtleCmds' = a
            /\ n' = 1
            /\ status' = "running"
            /\ chan4LHS' = "open"
            /\ chan4RHS' = "open"
            /\ coLHS' = [CoOff EXCEPT !.pc = "range"]
            /\ coRHS' = [CoOff EXCEPT !.pc = "range"]
            /\ hhPc' = "loop"
            /\ hhPos' = 0
            /\ newCmds' = <<>>
            /\ contextLHS' = <<>>
            /\ UNCHANGED <<rng, seed, msg>>
            /\ UNCHANGED <<plotVars, multiVars, xoVars>>
    /\ HandoffHistory(<<>>)

(* the main routine is at a symbol of the generation *)
AtSymbol ==
    /\ status = "running"
    /\ hhPc = "loop"
    /\ n <= order
    /\ hhPos < Len(TurtleCmds)

(* a constant is copied, a turn is copied as the other turn, a symbol that *)
(* is not supported halts                                                  *)
HandoffConstant ==
    /\ AtSymbol
    /\ LET symbol == TurtleCmds[hhPos + 1]
       IN  /\ symbol \notin {"0", "1"}
           /\ IF symbol \in {"F", "[", "]", "$", "+", "-"}
              THEN /\ newCmds' =
                         Append(newCmds,
                                IF symbol = "+" THEN "-"
                                ELSE IF symbol = "-" THEN "+" ELSE symbol)
                   /\ hhPos' = hhPos + 1
                   /\ UNCHANGED <<chan4LHS, chan4RHS, hhPc, contextLHS,
                                  coLHS, coRHS, TurtleCmds, n>>
                   /\ KeepHandoffCall
              ELSE /\ halt("HogewegHesper", "the symbol is not supported")
                   /\ NoHandoffNext
    /\ HandoffHistory(IF status' = "running" THEN handoffs ELSE <<>>)

(* chan4LHS<- TurtleCmds[:pos], received by the range clause of            *)
(* getContextLHS                                                           *)
HandoffSendLHS ==
    /\ AtSymbol
    /\ TurtleCmds[hhPos + 1] \in {"0", "1"}
    /\ chan4LHS = "open"
    /\ coLHS.pc = "range"
    /\ coLHS' = [pc |-> "search", arg |-> SubSeq(TurtleCmds, 1, hhPos),
                 context |-> <<>>]
    /\ hhPc' = "sendRHS"
    /\ UNCHANGED <<chan4LHS, chan4RHS, hhPos, newCmds, contextLHS, coRHS,
                   TurtleCmds, n>>
    /\ KeepHandoffCall
    /\ HandoffHistory(Append(handoffs, "chan4LHS<-"))

(* chan4RHS<- TurtleCmds[pos:] instead *)
HandoffSendRHSFromPos ==
    /\ status = "running"
    /\ hhPc = "sendRHS"
    /\ chan4RHS = "open"
    /\ coRHS.pc = "range"
    /\ coRHS' = [pc |-> "search", arg |-> Drop(TurtleCmds, hhPos),
                 context |-> <<>>]
    /\ hhPc' = "recvLHS"
    /\ UNCHANGED <<chan4LHS, chan4RHS, hhPos, newCmds, contextLHS, coLHS,
                   TurtleCmds, n>>
    /\ KeepHandoffCall
    /\ HandoffHistory(Append(handoffs, "chan4RHS<-"))

(* chan4RHS<- TurtleCmds[pos+1:], received by the range clause of          *)
(* getContextRHS                                                           *)
HandoffSendRHS ==
    /\ status = "running"
    /\ hhPc = "sendRHS"
    /\ chan4RHS = "open"
    /\ coRHS.pc = "range"
    /\ coRHS' = [pc |-> "search", arg |-> Drop(TurtleCmds, hhPos + 1),
                 context |-> <<>>]
    /\ hhPc' = "recvLHS"
    /\ UNCHANGED <<chan4LHS, chan4RHS, hhPos, newCmds, contextLHS, coLHS,
                   TurtleCmds, n>>
    /\ KeepHandoffCall
    /\ HandoffHistory(Append(handoffs, "chan4RHS<-"))

(* the search of a coroutine for the string it received: res is what the   *)
(* search comes to                                                         *)
coSearch(co, res, others) ==
    /\ co.pc = "search"
    /\ IF res.status = "ok"
       THEN /\ co' = [co EXCEPT !.pc = "send", !.context = res.context]
            /\ UNCHANGED others
            /\ UNCHANGED <<TurtleCmds, n>>
            /\ KeepHandoffCall
       ELSE /\ NoHandoffNext
            /\ IF res.status = "halted"
               THEN halt("HogewegHesper", "the symbol is not supported")
               ELSE panic /\ UNCHANGED <<rng, seed>>
    /\ HandoffHistory(IF status' = "running" THEN handoffs ELSE <<>>)

getContextLHSSearch ==
    /\ status = "running"
    /\ coSearch(coLHS, getContextLHS(coLHS.arg),
                <<chan4LHS, chan4RHS, hhPc, hhPos, newCmds, contextLHS,
                  coRHS>>)

getContextRHSSearch ==
    /\ status = "running"
    /\ coSearch(coRHS, getContextRHS(coRHS.arg),
                <<chan4LHS, chan4RHS, hhPc, hhPos, newCmds, contextLHS,
                  coLHS>>)

(* <-chan4LHS, the first argument of Sprintf, meets io<- context of        *)
(* getContextLHS, which goes back to its range clause                      *)
HandoffRecvLHS ==
    /\ status = "running"
    /\ hhPc = "recvLHS"
    /\ coLHS.pc = "send"
    /\ contextLHS' = coLHS.context
    /\ coLHS' = [CoOff EXCEPT !.pc = "range"]
    /\ hhPc' = "recvRHS"
    /\ UNCHANGED <<chan4LHS, chan4RHS, hhPos, newCmds, coRHS, TurtleCmds, n>>
    /\ KeepHandoffCall
    /\ HandoffHistory(Append(handoffs, "<-chan4LHS"))

(* <-chan4RHS meets io<- context of getContextRHS; then the key is built   *)
(* and looked up, and the replacement or the symbol appended to newCmds    *)
HandoffRecvRHS ==
    /\ status = "running"
    /\ hhPc = "recvRHS"
    /\ coRHS.pc = "send"
    /\ LET symbol  == TurtleCmds[hhPos + 1]
           context == Context(contextLHS, <<symbol>>, coRHS.context)
       IN  newCmds' = newCmds \o (IF context \in DOMAIN ruleMap
                                  THEN ruleMap[context]
                                  ELSE <<symbol>>)
    /\ coRHS' = [CoOff EXCEPT !.pc = "range"]
    /\ contextLHS' = <<>>
    /\ hhPos' = hhPos + 1
    /\ hhPc' = "loop"
    /\ UNCHANGED <<chan4LHS, chan4RHS, coLHS, TurtleCmds, n>>
    /\ KeepHandoffCall
    /\ HandoffHistory(Append(handoffs, "<-chan4RHS"))

(* the end of the loop over the symbols: TurtleCmds = newCmds *)
HandoffGenEnd ==
    /\ status = "running"
    /\ hhPc = "loop"
    /\ n <= order
    /\ hhPos >= Len(TurtleCmds)
    /\ TurtleCmds' = newCmds
    /\ n' = n + 1
    /\ hhPos' = 0
    /\ newCmds' = <<>>
    /\ UNCHANGED <<chan4LHS, chan4RHS, hhPc, contextLHS, coLHS, coRHS>>
    /\ KeepHandoffCall
    /\ HandoffHistory(<<>>)

(* close(chan4LHS) *)
HandoffCloseLHS ==
    /\ status = "running"
    /\ hhPc = "loop"
    /\ n > order
    /\ chan4LHS' = "closed"
    /\ hhPc' = "closeRHS"
    /\ UNCHANGED <<chan4RHS, hhPos, newCmds, contextLHS, coLHS, coRHS,
                   TurtleCmds, n>>
    /\ KeepHandoffCall
    /\ HandoffHistory(handoffs)

(* close(chan4RHS) *)
HandoffCloseRHS ==
    /\ status = "running"
    /\ hhPc = "closeRHS"
    /\ chan4RHS' = "closed"
    /\ hhPc' = "return"
    /\ UNCHANGED <<chan4LHS, hhPos, newCmds, contextLHS, coLHS, coRHS,
                   TurtleCmds, n>>
    /\ KeepHandoffCall
    /\ HandoffHistory(handoffs)

(* HogewegHesper returns; its coroutines go on *)
HandoffReturn ==
    /\ status = "running"
    /\ hhPc = "return"
    /\ status' = "idle"
    /\ engine' = "none"
    /\ NoLocals
    /\ hhPc' = "off"
    /\ hhPos' = 0
    /\ newCmds' = <<>>
    /\ contextLHS' = <<>>
    /\ UNCHANGED <<chan4LHS, chan4RHS, coLHS, coRHS>>
    /\ UNCHANGED <<TurtleCmds, rng, seed, msg>>
    /\ HandoffHistory(<<>>)

(* the range clause of a coroutine on its closed channel: the loop is over *)
(* and the coroutine returns                                               *)
coEnd(ch, co, others) ==
    /\ ch = "closed"
    /\ co.pc = "range"
    /\ co' = [co EXCEPT !.pc = "done"]
    /\ UNCHANGED others
    /\ UNCHANGED <<TurtleCmds, n>>
    /\ KeepHandoffCall
    /\ HandoffHistory(handoffs)

getContextLHSEnd ==
    /\ status \in {"running", "idle"}
    /\ coEnd(chan4LHS, coLHS,
             <<chan4LHS, chan4RHS, hhPc, hhPos, newCmds, contextLHS, coRHS>>)

getContextRHSEnd ==
    /\ status \in {"running", "idle"}
    /\ coEnd(chan4RHS, coRHS,
             <<chan4LHS, chan4RHS, hhPc, hhPos, newCmds, contextLHS, coLHS>>)

HandoffInit ==
    /\ Init
    /\ seed = 0

HandoffNext ==
    \/ \E o \in Orders, a \in HHAxioms, r \in HHTables : HandoffCall(o, a, r)
    \/ HandoffConstant
    \/ HandoffSendLHS
    \/ HandoffSendRHS
    \/ getContextLHSSearch
    \/ getContextRHSSearch
    \/ HandoffRecvLHS
    \/ HandoffRecvRHS
    \/ HandoffGenEnd
    \/ HandoffCloseLHS
    \/ HandoffCloseRHS
    \/ HandoffReturn
    \/ getContextLHSEnd
    \/ getContextRHSEnd

HandoffSpec == HandoffInit /\ [][HandoffNext]_vars

(* the steps of a call under way and of its coroutines *)
HandoffProgress ==
    \/ HandoffConstant
    \/ HandoffSendLHS
    \/ HandoffSendRHS
    \/ getContextLHSSearch
    \/ getContextRHSSearch
    \/ HandoffRecvLHS
    \/ HandoffRecvRHS
    \/ HandoffGenEnd
    \/ HandoffCloseLHS
    \/ HandoffCloseRHS
    \/ HandoffReturn

(* HogewegHesper when a routine that can take a step eventually takes it:  *)
(* the scheduler of Go leaves no runnable goroutine waiting for ever       *)
FairHandoffSpec ==
    /\ HandoffSpec
    /\ WF_vars(HandoffProgress)
    /\ WF_vars(getContextLHSEnd)
    /\ WF_vars(getContextRHSEnd)

(* ======================== properties of the engines ==================== *)

Engines == {"Deterministic", "Stochastic", "HogewegHesper"}

(* C1: in each of the three engines a call of order 0 that passes the      *)
(* checks leaves TurtleCmds equal to the axiom, whatever symbols the axiom *)
(* contains.                                                               *)
C1_OrderZeroIsAxiom ==
    (status = "running" /\ engine \in Engines /\ order = 0)
        => TurtleCmds = axiom

C1_Witness ==
    /\ status = "running"
    /\ engine = "HogewegHesper"
    /\ order = 0
    /\ n > order
    /\ "X" \in Range(axiom)
    /\ TurtleCmds = axiom

(* the strings one left-to-right, non-overlapping sweep can give: at each  *)
(* position a key that matches there is replaced and the sweep goes on     *)
(* behind it, in the input; a character where no key matches is copied     *)
RECURSIVE SweepImages(_, _)
SweepImages(pairs, s) ==
    IF s = <<>> THEN {<<>>}
    ELSE LET M == {i \in 1..Len(pairs) : IsPrefix(pairs[i][1], s)}
         IN  IF M = {}
             THEN {<<Head(s)>> \o t : t \in SweepImages(pairs, Tail(s))}
             ELSE UNION {{pairs[i][2] \o t :
                             t \in SweepImages(pairs,
                                               Drop(s, Len(pairs[i][1])))} :
                         i \in M}

RECURSIVE SweepImagesN(_, _, _)
SweepImagesN(pairs, s, k) ==
    IF k = 0 THEN {s}
    ELSE UNION {SweepImages(pairs, t) : t \in SweepImagesN(pairs, s, k - 1)}

(* C2: in Deterministic, after k generations TurtleCmds is the axiom swept *)
(* exactly k times, each sweep one left-to-right, non-overlapping pass     *)
(* that replaces matched keys, copies unmatched characters and never       *)
(* rewrites the text it has just inserted; the loop ends after exactly     *)
(* order sweeps.                                                           *)
C2_DeterministicSweeps ==
    (status = "running" /\ engine = "Deterministic")
        => /\ n - 1 <= order
           /\ TurtleCmds \in SweepImagesN(replacer, axiom, n - 1)

C2_Witness ==
    /\ status = "running"
    /\ engine = "Deterministic"
    /\ order = 2
    /\ n > order
    /\ Len(replacer) = 2
    /\ TurtleCmds # ReplaceChained(replacer, ReplaceChained(replacer, axiom))

(* the symbols the i-th symbol of s becomes when the generation starts     *)
(* with the generator in state g: the draw for an F is the one that comes  *)
(* after the draws of the F's to its left                                  *)
StochasticImage(s, r, sel, g, i) ==
    IF s[i] = "F"
    THEN r[sel[Intn(Advance(g, Count(SubSeq(s, 1, i - 1), "F")),
                    Len(sel)) + 1] + 1]
    ELSE <<s[i]>>

(* C3: a Stochastic generation replaces each F, left to right, by the rule *)
(* selected by a draw of its own, copies every other symbol in place, and  *)
(* consumes exactly one draw per F.                                        *)
C3_OneDrawPerF ==
    [][(status = "running" /\ engine = "Stochastic" /\ n' = n + 1)
          => /\ TurtleCmds' =
                   Flatten([i \in 1..Len(TurtleCmds) |->
                       StochasticImage(TurtleCmds, rules, selectors, rng, i)])
             /\ rng' = Advance(rng, Count(TurtleCmds, "F"))]_vars

C3_Witness ==
    /\ status = "running"
    /\ engine = "Stochastic"
    /\ n = 3
    /\ Count(axiom, "F") = 2
    /\ Len(rules) = 2
    /\ {"X", "+"} \subseteq Range(TurtleCmds)

(* C4: the selection table holds index i exactly weight_i times, its       *)
(* length is the sum of the weights, and a draw picks one of its positions *)
(* (so that with uniform draws rule i has chance weight_i / sum).          *)
C4_SelectorTable ==
    (status = "running" /\ engine = "Stochastic")
        => /\ Len(selectors) = Sum(weights)
           /\ \A i \in 0..(Len(weights) - 1) :
                 Count(selectors, i) = weights[i + 1]
           /\ Range(selectors) \subseteq 0..(Len(weights) - 1)
           /\ Intn(rng, Len(selectors)) \in 0..(Len(selectors) - 1)

C4_Witness ==
    /\ status = "running"
    /\ engine = "Stochastic"
    /\ weights = <<3, 4, 4>>
    /\ Len(selectors) = 11
    /\ Count(selectors, 0) = 3
    /\ Count(selectors, 1) = 4
    /\ Count(selectors, 2) = 4
(* C5: with more weights than rules the extra weights are ignored, so that *)
(* every position of the selection table, hence every draw, gives the      *)
(* index of an existing rule.                                              *)
C5_DrawSelectsExistingRule ==
    (status = "running" /\ engine = "Stochastic")
        => \A i \in 1..Len(selectors) : selectors[i] < Len(rules)

StochasticConfigErrors ==
    {"rules were not specified", "weights were not specified",
     "fewer weights specified than the number of rules",
     "weights must be postive"}

(* C6: a Stochastic call whose rule list is empty, whose weight list is    *)
(* empty, that has fewer weights than rules or a weight that is zero or    *)
(* negative never starts a derivation: a call that starts one has none of  *)
(* these defects, and a call that is rejected leaves TurtleCmds as it was. *)
C6_StochasticRejects ==
    [][(status = "idle" /\ engine' = "Stochastic")
          => /\ status' \in {"running", "halted"}
             /\ status' = "running"
                   => /\ Len(rules') # 0
                      /\ Len(weights') >= Len(rules')
                      /\ \A k \in 1..Len(weights') : weights'[k] > 0
                      /\ TurtleCmds' = axiom'
             /\ status' = "halted"
                   => /\ TurtleCmds' = TurtleCmds
                      /\ msg' \in StochasticConfigErrors
                             \cup {"curve order must be non-negative",
                                   "axiom was not specified"}]_vars

C6_Witness ==
    /\ status = "halted"
    /\ engine = "Stochastic"
    /\ msg = "weights must be postive"
    /\ TurtleCmds # <<>>

(* C7: Stochastic with the single rule r and the weights [1] computes what *)
(* Deterministic computes with the single rule F -> r, generation by       *)
(* generation and at the end.                                              *)
C7_SingleRuleIsDeterministic ==
    (status = "running" /\ engine = "Stochastic" /\ Len(rules) = 1
         /\ weights = <<1>>)
        => TurtleCmds =
              DeterministicResult(n - 1, axiom, << <<(<<"F">>), rules[1]>> >>)

C7_Witness ==
    /\ status = "running"
    /\ engine = "Stochastic"
    /\ Len(rules) = 1
    /\ weights = <<1>>
    /\ order = 2
    /\ n > order
    /\ "F" \in Range(axiom)
    /\ TurtleCmds # axiom

(* C8: a Stochastic derivation is a function of the seed and of its own    *)
(* arguments: its result is the one the derivation gives when its draws    *)
(* start from the seeded generator, whatever calls were made before it     *)
(* (stated for calls with as many weights as rules, where no draw can      *)
(* select a missing rule).                                                 *)
C8_ReproducibleFromSeed ==
    (status = "running" /\ engine = "Stochastic" /\ n > order
         /\ Len(weights) = Len(rules))
        => TurtleCmds =
              StochasticResult(order, axiom, rules, selectors, seed).cmds
HHVariables == {"0", "1"}

Balanced(s, i, j) ==
    Count(SubSeq(s, i, j), "[") = Count(SubSeq(s, i, j), "]")

(* the "[" that opens the branch closed by the "]" at j, 0 if there is none *)
OpenerOf(s, j) ==
    LET O == {i \in 1..(j - 1) : s[i] = "[" /\ Balanced(s, i, j)}
    IN  IF O = {} THEN 0 ELSE Max(O)

(* the "]" that closes the branch opened by the "[" at i, 0 if there is none *)
CloserOf(s, i) ==
    LET C == {j \in (i + 1)..Len(s) : s[j] = "]" /\ Balanced(s, i, j)}
    IN  IF C = {} THEN 0 ELSE Min(C)

(* q lies in a complete branch [ ... ] that is closed between q and p *)
InBranchLeftOf(s, q, p) ==
    \E j \in (q + 1)..(p - 1) :
        s[j] = "]" /\ OpenerOf(s, j) # 0 /\ OpenerOf(s, j) <= q

(* the left context of position p: the nearest 0/1 to the left of p that   *)
(* is not inside a complete branch closed before p; none gives ""          *)
LeftContextOf(s, p) ==
    LET V == {q \in 1..(p - 1) :
                 s[q] \in HHVariables /\ ~InBranchLeftOf(s, q, p)}
    IN  IF V = {} THEN <<>> ELSE <<s[Max(V)]>>

(* C9: for every 0/1 of the string HogewegHesper is rewriting, a left      *)
(* context search that ends normally gives the first 0/1 met going left    *)
(* from p-1 when every complete sub-branch "[...]" on the way is skipped   *)
(* as a whole and F + - $ and every "[" are stepped over; it gives the     *)
(* empty context when the start of the string is reached.                  *)
C9_LeftContext ==
    (status = "running" /\ engine = "HogewegHesper")
        => \A p \in 1..Len(TurtleCmds) :
              TurtleCmds[p] \in HHVariables
                  => LET res == getContextLHS(SubSeq(TurtleCmds, 1, p - 1))
                     IN  res.status = "ok"
                            => res.context = LeftContextOf(TurtleCmds, p)

(* a generation has been rewritten and in its successor one left context   *)
(* is found behind a nested branch and another by stepping over the "["    *)
(* of the branch the symbol is in                                          *)
C9_Witness ==
    /\ status = "running"
    /\ engine = "HogewegHesper"
    /\ n > 1
    /\ TurtleCmds # axiom
    /\ \E p \in 3..Len(TurtleCmds) :
          /\ TurtleCmds[p] \in HHVariables
          /\ TurtleCmds[p - 1] = "]"
          /\ TurtleCmds[p - 2] = "]"
          /\ getContextLHS(SubSeq(TurtleCmds, 1, p - 1)).status = "ok"
          /\ getContextLHS(SubSeq(TurtleCmds, 1, p - 1)).context # <<>>
    /\ \E p \in 3..Len(TurtleCmds) :
          /\ TurtleCmds[p] \in HHVariables
          /\ TurtleCmds[p - 1] = "["
          /\ getContextLHS(SubSeq(TurtleCmds, 1, p - 1)).status = "ok"
          /\ getContextLHS(SubSeq(TurtleCmds, 1, p - 1)).context # <<>>

(* q lies in a complete branch [ ... ] that is opened between p and q *)
InBranchRightOf(s, q, p) ==
    \E i \in (p + 1)..(q - 1) :
        s[i] = "[" /\ CloserOf(s, i) # 0 /\ CloserOf(s, i) >= q

(* the right context of position p: the nearest 0/1 to the right of p that *)
(* is not inside a complete branch opened after p, unless a "]" that       *)
(* closes no such branch (the end of the branch p is in) comes first       *)
RightContextOf(s, p) ==
    LET V == {q \in (p + 1)..Len(s) :
                 s[q] \in HHVariables /\ ~InBranchRightOf(s, q, p)}
        E == {q \in (p + 1)..Len(s) :
                 s[q] = "]" /\ ~InBranchRightOf(s, q, p)}
    IN  IF V = {} THEN <<>>
        ELSE IF E # {} /\ Min(E) < Min(V) THEN <<>>
        ELSE <<s[Min(V)]>>

(* C10: for every 0/1 of the string HogewegHesper is rewriting, a right    *)
(* context search that ends normally gives the first 0/1 met going right   *)
(* from p+1 when every complete sub-branch "[...]" on the way is skipped   *)
(* as a whole and F + - $ are stepped over; it gives the empty context     *)
(* when an unmatched "]" or the end of the string comes first.             *)
C10_RightContext ==
    (status = "running" /\ engine = "HogewegHesper")
        => \A p \in 1..Len(TurtleCmds) :
              TurtleCmds[p] \in HHVariables
                  => LET res == getContextRHS(Drop(TurtleCmds, p))
                     IN  res.status = "ok"
                            => res.context = RightContextOf(TurtleCmds, p)

(* a generation has been rewritten and in its successor a right context is *)
(* found behind a nested branch, and another search stops at the "]" that  *)
(* ends its own branch although a 0/1 comes later in the string            *)
C10_Witness ==
    /\ status = "running"
    /\ engine = "HogewegHesper"
    /\ n > 1
    /\ TurtleCmds # axiom
    /\ \E p \in 1..(Len(TurtleCmds) - 2) :
          /\ TurtleCmds[p] \in HHVariables
          /\ TurtleCmds[p + 1] = "["
          /\ \E i \in (p + 2)..Len(TurtleCmds) :
                TurtleCmds[i] = "[" /\ CloserOf(TurtleCmds, p + 1) > i
          /\ getContextRHS(Drop(TurtleCmds, p)).status = "ok"
          /\ getContextRHS(Drop(TurtleCmds, p)).context # <<>>
    /\ \E p \in 1..(Len(TurtleCmds) - 2) :
          /\ TurtleCmds[p] \in HHVariables
          /\ TurtleCmds[p + 1] = "]"
          /\ \E q \in (p + 2)..Len(TurtleCmds) : TurtleCmds[q] \in HHVariables
          /\ getContextRHS(Drop(TurtleCmds, p)) =
                [status |-> "ok", context |-> <<>>]
(* ------------------- the generations of HogewegHesper ------------------ *)
SwapTurn(c) == IF c = "+" THEN "-" ELSE IF c = "-" THEN "+" ELSE c

SwapTurns(s) == [i \in 1..Len(s) |-> SwapTurn(s[i])]

(* what the symbol at position p of the generation s becomes under the     *)
(* table r, its contexts taken in s itself                                 *)
HHImage(s, r, p) ==
    IF s[p] \in HHVariables
    THEN LET triple == LeftContextOf(s, p)
                           \o <<" ", "<", " ", s[p], " ", ">", " ">>
                           \o RightContextOf(s, p)
         IN  IF triple \in DOMAIN r THEN r[triple] ELSE <<s[p]>>
    ELSE <<SwapTurn(s[p])>>

HHHit(s, r, p) ==
    /\ s[p] \in HHVariables
    /\ (LeftContextOf(s, p) \o <<" ", "<", " ", s[p], " ", ">", " ">>
           \o RightContextOf(s, p)) \in DOMAIN r

(* C11: a HogewegHesper generation that completes replaces every 0/1 by    *)
(* the table entry for (left context, symbol, right context) when the      *)
(* table has one and copies it otherwise, both contexts being those of the *)
(* symbol in the previous generation's complete string.                    *)
C11_ContextualRewrite ==
    [][(status = "running" /\ engine = "HogewegHesper" /\ n' = n + 1)
          => TurtleCmds' =
                Flatten([p \in 1..Len(TurtleCmds) |->
                            HHImage(TurtleCmds, ruleMap, p)])]_vars

(* after the first generation: two neighbouring 0/1 of the axiom were both *)
(* rewritten, the left one to something else than itself (so that the      *)
(* right one's left context differs between the axiom and the successor),  *)
(* and another 0/1 with a 0/1 on either side had no rule and was copied    *)
C11_Witness ==
    /\ status = "running"
    /\ engine = "HogewegHesper"
    /\ n = 2
    /\ ruleMap # <<>>
    /\ TurtleCmds = Flatten([p \in 1..Len(axiom) |-> HHImage(axiom, ruleMap, p)])
    /\ \E p \in 2..Len(axiom) :
          /\ HHHit(axiom, ruleMap, p - 1)
          /\ HHHit(axiom, ruleMap, p)
          /\ HHImage(axiom, ruleMap, p - 1) # <<axiom[p - 1]>>
    /\ \E q \in 1..Len(axiom) :
          /\ axiom[q] \in HHVariables
          /\ LeftContextOf(axiom, q) # <<>>
          /\ RightContextOf(axiom, q) # <<>>
          /\ ~HHHit(axiom, ruleMap, q)

(* t is s with every constant rewritten as HogewegHesper rewrites it (F [  *)
(* ] $ kept, + and - exchanged) and every 0/1 replaced by itself or by any *)
(* string of R                                                             *)
RECURSIVE ConstantsRewritten(_, _, _)
ConstantsRewritten(s, t, R) ==
    IF s = <<>> THEN t = <<>>
    ELSE IF Head(s) \in HHVariables
         THEN \E x \in R \cup {<<Head(s)>>} :
                 /\ IsPrefix(x, t)
                 /\ ConstantsRewritten(Tail(s), Drop(t, Len(x)), R)
         ELSE /\ t # <<>>
              /\ Head(t) = SwapTurn(Head(s))
              /\ ConstantsRewritten(Tail(s), Tail(t), R)

(* the symbols of the axiom that keep their place whatever the table does: *)
(* those with no 0/1 to their left, counted from the start, and those with *)
(* no 0/1 to their right, counted from the end.  After k generations such  *)
(* a symbol is itself when k is even and exchanged when k is odd.          *)
TurnsAlternate(a, t, k) ==
    /\ \A p \in 1..Len(a) :
          (\A q \in 1..p : a[q] \notin HHVariables)
              => /\ p <= Len(t)
                 /\ t[p] = (IF k % 2 = 0 THEN a[p] ELSE SwapTurn(a[p]))
    /\ \A p \in 1..Len(a) :
          (\A q \in p..Len(a) : a[q] \notin HHVariables)
              => /\ Len(a) - p < Len(t)
                 /\ t[Len(t) - (Len(a) - p)] =
                       (IF k % 2 = 0 THEN a[p] ELSE SwapTurn(a[p]))

(* C12: a HogewegHesper generation that completes copies every F [ ] $ and *)
(* exchanges every + and -, whatever the rule table holds; hence a turn    *)
(* symbol of the axiom is itself after an even number of generations and   *)
(* its opposite after an odd number.                                       *)
C12_ConstantsAndTurns ==
    [][(status = "running" /\ engine = "HogewegHesper" /\ n' = n + 1)
          => /\ ConstantsRewritten(TurtleCmds, TurtleCmds',
                                   {ruleMap[k] : k \in DOMAIN ruleMap})
             /\ TurnsAlternate(axiom', TurtleCmds', n' - 1)]_vars

(* two generations done under a table that rewrote something: the turn     *)
(* symbols at both ends of the axiom are back to themselves, and the       *)
(* string holds F [ ] $ beside them                                        *)
C12_Witness ==
    /\ status = "running"
    /\ engine = "HogewegHesper"
    /\ n = 3
    /\ ruleMap # <<>>
    /\ axiom[1] = "-"
    /\ axiom[Len(axiom)] = "+"
    /\ TurtleCmds[1] = "-"
    /\ TurtleCmds[Len(TurtleCmds)] = "+"
    /\ Len(TurtleCmds) > Len(axiom)
    /\ {"F", "[", "]", "$"} \subseteq Range(TurtleCmds)

HHSupported == {"F", "[", "]", "$", "+", "-", "0", "1"}

C14_UnsupportedSymbolError ==
    [][(status = "running" /\ engine = "HogewegHesper" /\ n <= order
           /\ ~(Range(TurtleCmds) \subseteq HHSupported))
          => (status' = "halted" /\ msg' = "the symbol is not supported")]_vars

(* a rule key of the exact form "c < c > c" with c in {0, 1} *)
ExactKey(k) ==
    /\ Len(k) = 9
    /\ {k[1], k[5], k[9]} \subseteq {"0", "1"}
    /\ <<k[2], k[3], k[4]>> = <<" ", "<", " ">>
    /\ <<k[6], k[7], k[8]>> = <<" ", ">", " ">>

(* C15: a call of an engine either is rejected, and then TurtleCmds keeps  *)
(* the value it had before the call, or starts a derivation, and then its  *)
(* order is not negative, its axiom is not empty and, in HogewegHesper at  *)
(* any order, 0 included, every rule key has the exact form "c < c > c"    *)
(* and no replacement is empty.                                            *)
C15_RejectedBeforeResult ==
    [][(status = "idle" /\ engine' \in Engines)
          => /\ status' \in {"running", "halted"}
             /\ status' = "running"
                   => /\ order' >= 0
                      /\ axiom' # <<>>
                      /\ engine' = "HogewegHesper"
                            => \A k \in DOMAIN ruleMap' :
                                  ExactKey(k) /\ ruleMap'[k] # <<>>
             /\ status' = "halted" => TurtleCmds' = TurtleCmds]_vars

C15_Witness ==
    /\ status = "halted"
    /\ engine = "HogewegHesper"
    /\ msg = "the rules were not specified correctly"
    /\ TurtleCmds # <<>>

(* C16: when HogewegHesper ends with the unsupported symbol error,         *)
(* TurtleCmds holds neither the axiom nor a generation of the failed call. *)
C16_NoPartialResult ==
    [][(status = "running" /\ engine = "HogewegHesper" /\ status' = "halted"
           /\ msg' = "the symbol is not supported")
          => (TurtleCmds' # axiom /\ TurtleCmds' # TurtleCmds)]_vars
(* =================== properties of the interpretation ================== *)
NoCancellingPair(s) ==
    \A i \in 1..(Len(s) - 1) :
        <<s[i], s[i + 1]>> \notin {<<"+", "-">>, <<"-", "+">>}

(* C17: the normalization applied when an interpretation starts leaves no  *)
(* adjacent "+-" or "-+" in the string, and applying it to its own output  *)
(* changes nothing.                                                        *)
C17_NormalizationIdempotent ==
    [][(status = "idle" /\ status' = "plotting")
          => /\ NoCancellingPair(TurtleCmds')
             /\ removePointlessTurns(TurtleCmds') = TurtleCmds']_vars

Pt(x, y) == <<<<2 * x, 0>>, <<2 * y, 0>>>>

(* the unit stride of a heading that is a multiple of 90 degrees *)
AxisStride(h) ==
    CASE h % 360 = 0 -> Pt(1, 0)
      [] h % 360 = 90 -> Pt(0, 1)
      [] h % 360 = 180 -> Pt(-1, 0)
      [] h % 360 = 270 -> Pt(0, -1)

(* the points the primitives end at, in the order they were emitted *)
Visits(cmds) ==
    LET withPts == SelectSeq(cmds, LAMBDA c : c.pts # <<>>)
    IN  [i \in 1..Len(withPts) |-> withPts[i].pts[Len(withPts[i].pts)]]

UnitSquare == <<"F", "+", "F", "+", "F", "+", "F">>

SquareCompiled ==
    /\ status = "plotted"
    /\ TurtleCmds = UnitSquare
    /\ angle = 90

SquareResult ==
    /\ <<turtle.X, turtle.Y>> = Pt(0, 0)
    /\ <<xMin, xMax, yMin, yMax>> = <<Zero, One, Zero, One>>
    /\ Visits(plotCmds) \in
          { <<Pt(1, 0), Pt(1, 1), Pt(0, 1), Pt(0, 0)>>,
            <<Pt(0, 0), Pt(1, 0), Pt(1, 1), Pt(0, 1), Pt(0, 0)>> }

(* C18: when the heading is a multiple of 90 degrees, positive or          *)
(* negative, an F or f move adds exactly the unit stride of that heading   *)
(* to the position (one coordinate changes by 1, the other is kept);       *)
(* "F+F+F+F" with angle 90 from the origin visits (1,0), (1,1), (0,1),     *)
(* (0,0), ends where it started and gives the bounding box (0, 1, 0, 1).   *)
C18_AxisAlignedMoves ==
    [][/\ (/\ status = "plotting"
           /\ status' = "plotting"
           /\ position < Len(TurtleCmds)
           /\ TurtleCmds[position + 1] \in {"F", "f"}
           /\ turtle.HEADING % 90 = 0)
          => /\ turtle'.HEADING = turtle.HEADING
             /\ turtle'.X = Plus(turtle.X, AxisStride(turtle.HEADING)[1])
             /\ turtle'.Y = Plus(turtle.Y, AxisStride(turtle.HEADING)[2])
       /\ SquareCompiled' => SquareResult']_vars

C18_Witness ==
    /\ SquareCompiled
    /\ SquareResult
    /\ engine = "Plot"
    /\ Len(plotCmds) = 4

(* the number of branches open after the first k symbols of s *)
OpenBrackets(s, k) ==
    Count(SubSeq(s, 1, k), "[") - Count(SubSeq(s, 1, k), "]")

(* the turtle after the first k symbols of s have been interpreted, said   *)
(* without a stack: after a "]" it is the turtle at the "[" that opened    *)
(* the branch; after the ")" of a heading declaration it is the turtle at  *)
(* the "(" with the declared heading; else it is the turtle before the     *)
(* symbol, moved or turned by the symbol                                   *)
RECURSIVE TurtleAfter(_, _, _)
TurtleAfter(s, a, k) ==
    IF k = 0 THEN _turtleStatus(0, Zero, Zero)
    ELSE LET c == s[k]
         IN  IF c = "]" THEN TurtleAfter(s, a, OpenerOf(s, k))
             ELSE IF c = ")"
                  THEN LET i == Max({j \in 1..k : s[j] = "("})
                       IN  [TurtleAfter(s, a, i - 1) EXCEPT !.HEADING =
                               ParseFloat(SubSeq(s, i + 1, k - 1)).value]
             ELSE LET t == TurtleAfter(s, a, k - 1)
                  IN  CASE c \in {"F", "f"} ->
                             [t EXCEPT
                                !.X = Plus(@, MathCos(t.HEADING)),
                                !.Y = Plus(@, MathSin(t.HEADING))]
                        [] c = "+" -> [t EXCEPT !.HEADING = @ + a]
                        [] c = "-" -> [t EXCEPT !.HEADING = @ - a]
                        [] c = "|" -> [t EXCEPT !.HEADING = @ + 180]
                        [] c = "$" -> [t EXCEPT !.HEADING = 90]
                        [] OTHER -> t

(* the "[" among the first k symbols of s whose branch is still open *)
OpenAt(s, k) ==
    {i \in 1..k : s[i] = "[" /\ (CloserOf(s, i) = 0 \/ CloserOf(s, i) > k)}

(* C19: at every step of an interpretation the stack holds one turtle for  *)
(* each "[" that is still open, the turtle saved at that "[", innermost    *)
(* last; and the turtle is the one the symbols interpreted so far lead to  *)
(* when each "]" gives back, heading and position, the turtle of its "[".  *)
C19_BranchRestores ==
    status \in {"plotting", "plotted"}
        => LET read == interpreted
               k    == Len(interpreted)
           IN  /\ Len(stack) = OpenBrackets(read, k)
               /\ Len(stack) = Cardinality(OpenAt(read, k))
               /\ \A i \in OpenAt(read, k) :
                     stack[Cardinality({j \in OpenAt(read, k) : j <= i})]
                         = TurtleAfter(read, angle, i)
               /\ turtle = TurtleAfter(read, angle, k)

(* the inner "]" of a nested branch has just been interpreted: the outer   *)
(* branch is still open, and the turtle, moved and turned inside the inner *)
(* branch, is back at the turtle of the inner "["                          *)
C19_Witness ==
    /\ status = "plotting"
    /\ position > 0
    /\ TurtleCmds[position] = "]"
    /\ Len(stack) = 1
    /\ OpenerOf(TurtleCmds, position) > Min(OpenAt(TurtleCmds, position))
    /\ LET before == TurtleAfter(TurtleCmds, angle, position - 1)
       IN  /\ before.HEADING # turtle.HEADING
           /\ <<before.X, before.Y>> # <<turtle.X, turtle.Y>>
    /\ turtle # stack[1]

(* C20: a "]" interpreted with an empty stack ends the process in both     *)
(* emitters: nothing follows it, no primitive and no bounding box is       *)
(* returned, and an interpretation that does return has never met a "]"    *)
(* with no branch open.                                                    *)
C20_PopOnEmptyIsFatal ==
    [][/\ (/\ status = "plotting"
           /\ position < Len(TurtleCmds)
           /\ TurtleCmds[position + 1] = "]"
           /\ stack = <<>>)
          => /\ status' = "panic"
             /\ plotCmds' = <<>>
             /\ <<xMin', xMax', yMin', yMax'>> = <<Zero, Zero, Zero, Zero>>
       /\ status # "panic"
       /\ status' = "plotted"
             => \A k \in 0..Len(TurtleCmds') :
                   OpenBrackets(TurtleCmds', k) >= 0]_vars

C20_Witness ==
    /\ status = "panic"
    /\ engine = "HpglPlot"
    /\ msg = "index out of range"
    /\ plotCmds = <<>>
    /\ \E k \in 2..Len(TurtleCmds) :
          /\ TurtleCmds[k] = "]"
          /\ OpenBrackets(TurtleCmds, k - 1) = 0
          /\ "F" \in Range(SubSeq(TurtleCmds, 1, k - 1))
Leq(x, y) == ~Less(y, x)

Within(b, x, y) ==
    Leq(b.xMin, x) /\ Leq(x, b.xMax) /\ Leq(b.yMin, y) /\ Leq(y, b.yMax)

InBox(x, y) == Within(Box, x, y)

MovesUpTo(s, k) == {j \in 1..k : s[j] \in {"F", "f"}}

(* C21: during an interpretation by Plot or HpglPlot (origin 0) the        *)
(* bounding box contains the origin and every position an F or f move has  *)
(* led to so far, and no step moves a bound inward: xMin and yMin never    *)
(* increase, xMax and yMax never decrease.                                 *)
C21_BoxOnlyGrows ==
    [][(status' \in {"plotting", "plotted"}
           /\ engine' \in {"Plot", "HpglPlot"})
          => /\ Within(Box', Zero, Zero)
             /\ Within(Box', turtle'.X, turtle'.Y)
             /\ \A j \in MovesUpTo(interpreted', Len(interpreted')) :
                   LET t == TurtleAfter(interpreted', angle', j)
                   IN  Within(Box', t.X, t.Y)
             /\ status = "plotting"
                   => /\ Leq(xMin', xMin)
                      /\ Leq(xMax, xMax')
                      /\ Leq(yMin', yMin)
                      /\ Leq(yMax, yMax')]_vars

(* a non-drawing move has taken place, a branch was left, and the box has  *)
(* grown to the right and downward while the turtle is inside it, off its  *)
(* right and lower sides                                                   *)
C21_Witness ==
    /\ status = "plotted"
    /\ {"f", "]"} \subseteq Range(TurtleCmds)
    /\ Less(Zero, xMax)
    /\ Less(yMin, Zero)
    /\ Less(turtle.X, xMax)
    /\ Less(yMin, turtle.Y)
    /\ InBox(turtle.X, turtle.Y)

(* the characters of the heading declaration that starts at position p     *)
(* (counted from 0) of s                                                   *)
DeclaredAt(s, p) ==
    LET q == Min({j \in (p + 2)..Len(s) : s[j] = ")"})
    IN  SubSeq(s, p + 2, q - 1)

(* C30: the turtle starts with heading 0; "+" adds the production angle to *)
(* the heading, "-" subtracts it, "|" adds 180, "$" sets it to 90 and "(v)"*)
(* sets it to v; none of them moves the turtle, changes the bounding box   *)
(* or the stack, or emits a primitive.                                     *)
C30_HeadingSymbols ==
    [][/\ (status = "idle" /\ status' = "plotting")
          => turtle'.HEADING = 0
       /\ (/\ status = "plotting"
           /\ status' = "plotting"
           /\ position < Len(TurtleCmds)
           /\ TurtleCmds[position + 1] \in {"+", "-", "|", "$", "("})
          => /\ turtle'.HEADING =
                   CASE TurtleCmds[position + 1] = "+" ->
                          turtle.HEADING + angle
                     [] TurtleCmds[position + 1] = "-" ->
                          turtle.HEADING - angle
                     [] TurtleCmds[position + 1] = "|" ->
                          turtle.HEADING + 180
                     [] TurtleCmds[position + 1] = "$" -> 90
                     [] TurtleCmds[position + 1] = "(" ->
                          ParseFloat(DeclaredAt(TurtleCmds, position)).value
             /\ turtle'.X = turtle.X
             /\ turtle'.Y = turtle.Y
             /\ UNCHANGED <<xMin, xMax, yMin, yMax, stack, plotCmds>>]_vars

(* "$" has just been interpreted with the turtle away from the origin and  *)
(* a heading that was neither 0 nor 90                                     *)
C30_Witness ==
    /\ status = "plotting"
    /\ position > 0
    /\ TurtleCmds[position] = "$"
    /\ TurtleAfter(TurtleCmds, angle, position - 1).HEADING \notin {0, 90}
    /\ turtle.HEADING = 90
Stride(h) == <<MathCos(h), MathSin(h)>>

Segment(from, to) == [op |-> "set arrow", pts |-> <<from, to>>]

At(t) == <<t.X, t.Y>>

(* the positions of the "F" of s, in increasing order *)
DrawnAt(s) ==
    LET Fs == {j \in 1..Len(s) : s[j] = "F"}
    IN  [i \in 1..Cardinality(Fs) |->
            CHOOSE j \in Fs : Cardinality({m \in Fs : m <= j}) = i]

GnuplotMove ==
    /\ status = "plotting"
    /\ status' = "plotting"
    /\ engine = "Plot"
    /\ position < Len(TurtleCmds)
    /\ TurtleCmds[position + 1] \in {"F", "f"}

(* C28: outside polygon mode, in the gnuplot emitter, each "F" emits one   *)
(* line segment from the position before the move to the position after   *)
(* it, each "f" moves by the same stride and emits nothing, and the        *)
(* segments are emitted in the order of their "F".                         *)
C28_SegmentPerDraw ==
    [][/\ (GnuplotMove /\ polygon = <<>>)
          => /\ At(turtle') =
                   <<Plus(turtle.X, Stride(turtle.HEADING)[1]),
                     Plus(turtle.Y, Stride(turtle.HEADING)[2])>>
             /\ plotCmds' =
                   IF TurtleCmds[position + 1] = "F"
                   THEN Append(plotCmds, Segment(At(turtle), At(turtle')))
                   ELSE plotCmds
       /\ (/\ status' = "plotted"
           /\ engine = "Plot"
           /\ Range(TurtleCmds') \cap {"{", "}"} = {})
          => plotCmds' =
                [i \in 1..Len(DrawnAt(interpreted')) |->
                    Segment(At(TurtleAfter(interpreted', angle',
                                           DrawnAt(interpreted')[i] - 1)),
                            At(TurtleAfter(interpreted', angle',
                                           DrawnAt(interpreted')[i])))]]_vars

(* an interpretation with branches, a non-drawing move and several         *)
(* segments has returned                                                   *)
C28_Witness ==
    /\ status = "plotted"
    /\ engine = "Plot"
    /\ {"f", "]"} \subseteq Range(TurtleCmds)
    /\ Len(plotCmds) = 4
    /\ Len(plotCmds) = Count(TurtleCmds, "F")
    /\ plotCmds[4].pts[1] # plotCmds[3].pts[2]

PolygonDirective(pts) == [op |-> "set object polygon", pts |-> pts]

(* C29: in the gnuplot emitter "{" starts a polygon at the position of the *)
(* turtle; until the next "}" every "F" or "f" adds the position after the *)
(* move to that polygon and emits no segment; "}" emits one polygon        *)
(* directive with these points; after it "F" emits segments again.         *)
C29_PolygonMode ==
    [][/\ (/\ status = "plotting"
           /\ status' = "plotting"
           /\ engine = "Plot"
           /\ position < Len(TurtleCmds)
           /\ TurtleCmds[position + 1] = "{")
          => /\ polygon' = <<At(turtle)>>
             /\ plotCmds' = plotCmds
       /\ (GnuplotMove /\ polygon # <<>>)
          => /\ polygon' = Append(polygon, At(turtle'))
             /\ At(turtle') # At(turtle)
             /\ plotCmds' = plotCmds
       /\ (/\ status = "plotting"
           /\ status' = "plotting"
           /\ engine = "Plot"
           /\ position < Len(TurtleCmds)
           /\ TurtleCmds[position + 1] = "}"
           /\ polygon # <<>>)
          => /\ plotCmds' = Append(plotCmds, PolygonDirective(polygon))
             /\ polygon' = <<>>
       /\ (/\ GnuplotMove
           /\ TurtleCmds[position + 1] = "F"
           /\ position > 0
           /\ TurtleCmds[position] = "}")
          => plotCmds' = Append(plotCmds, Segment(At(turtle), At(turtle')))
      ]_vars

(* "F{f-F}F" with angle 90 has been compiled: a segment, then one polygon  *)
(* of three points made by an "f" and an "F", then a segment               *)
C29_Witness ==
    /\ status = "plotted"
    /\ engine = "Plot"
    /\ angle = 90
    /\ TurtleCmds = <<"F", "{", "f", "-", "F", "}", "F">>
    /\ plotCmds = << Segment(Pt(0, 0), Pt(1, 0)),
                     PolygonDirective(<<Pt(1, 0), Pt(2, 0), Pt(2, -1)>>),
                     Segment(Pt(2, -1), Pt(2, -2)) >>
(* the moves of s read with every symbol that is no constant ignored: for  *)
(* each "F" and "f", in order, the symbol and the positions before and     *)
(* after it                                                                *)
Walk(s, a) ==
    LET Ms == MovesUpTo(s, Len(s))
        nth(i) == CHOOSE j \in Ms : Cardinality({m \in Ms : m <= j}) = i
    IN  [i \in 1..Cardinality(Ms) |->
            <<s[nth(i)], At(TurtleAfter(s, a, nth(i) - 1)),
              At(TurtleAfter(s, a, nth(i)))>>]

VariableRemoval ==
    /\ status = "plotting"
    /\ status' = "plotting"
    /\ position < Len(TurtleCmds)
    /\ TurtleCmds[position + 1] \notin TurtleConstants

(* C27: symbols that are no constants are ignored: when the interpretation *)
(* deletes a variable, the string left draws what the string drew with the *)
(* variable ignored (same moves between the same positions), also when the *)
(* variable is a digit and the string holds heading declarations.          *)
C27_VariablesIgnored ==
    [][VariableRemoval
          => Walk(TurtleCmds', angle) = Walk(TurtleCmds, angle)]_vars

(* C26: Plot and HpglPlot leave TurtleCmds as the rewrite engine produced  *)
(* it: no step of an interpretation changes the string.                    *)
C26_CompileKeepsString ==
    [][(engine \in {"Plot", "HpglPlot"} \/ engine' \in {"Plot", "HpglPlot"})
          => TurtleCmds' = TurtleCmds]_vars
(* ===================== properties of the multi-plots =================== *)
WellBracketed(s) == \A j \in 0..Len(s) : OpenBrackets(s, j) >= 0

MinOf(S) == CHOOSE x \in S : \A y \in S : Leq(x, y)

(* the x ordinates of a walk of s from the local origin 0: the origin and  *)
(* the positions after each "F" and "f"                                    *)
ReachedX(s, a) ==
    {Zero} \cup {TurtleAfter(s, a, j).X : j \in MovesUpTo(s, Len(s))}

LeftmostOf(s, a) == MinOf(ReachedX(s, a))

Without(s, S) == SelectSeq(s, LAMBDA c : c \notin S)

SubplotBegins == status # "plotting" /\ status' = "plotting"

(* the positions of the subplot under interpretation: its origin and the   *)
(* positions after each of its moves                                       *)
SubplotReached ==
    {<<xOrigin, Zero>>} \cup
    { LET t == TurtleAfter(interpreted, angle, j)
      IN  <<Plus(xOrigin, t.X), t.Y>> :
          j \in MovesUpTo(interpreted, Len(interpreted)) }

(* C22: the bounding box of a multi-plot is the union of the boxes of its  *)
(* subplots at their origins: when a subplot has been interpreted the box  *)
(* contains its origin and every position it visited, and the box never    *)
(* shrinks afterwards.                                                     *)
C22_MultiBoxIsUnion ==
    [][(engine \in MultiEngines /\ status = "plotting")
          => /\ status' \in {"receiving", "plotted"}
                   => \A q \in SubplotReached : Within(Box', q[1], q[2])
             /\ status' # "halted" /\ status' # "panic"
                   => /\ Leq(xMin', xMin)
                      /\ Leq(xMax, xMax')
                      /\ Leq(yMin', yMin)
                      /\ Leq(yMax, yMax')]_vars

(* C23: subplots do not collide: the origin of subplot i+1 is to the right *)
(* of the origin of subplot i, and the leftmost position of subplot i+1    *)
(* is to the right of every position subplot i visited.                    *)
C23_SubplotsApart ==
    [][(status = "receiving" /\ status' = "looping")
          => /\ Less(xOrigin, xOrigin')
             /\ \A q \in SubplotReached :
                   Less(q[1], Plus(xOrigin', xoMin))]_vars

(* C24: the first subplot is interpreted at the origin x = 0, and subplot  *)
(* k+1 at the xMax returned after subplot k, plus the absolute value of    *)
(* the leftmost x subplot k+1 reaches from its local origin, plus 2; when  *)
(* it never goes left the gap is 2 and the origin is beyond that xMax.     *)
C24_OriginOfNextSubplot ==
    [][/\ SubplotBegins
          => /\ At(turtle') = <<xOrigin, Zero>>
             /\ turtle'.HEADING = 0
             /\ subplotK = 0 => xOrigin = Zero
       /\ (/\ status = "receiving"
           /\ status' = "looping"
           /\ WellBracketed(turtleCmds[subplotK + 2]))
          => LET left == LeftmostOf(walked, turtleAngles[subplotK + 2])
             IN  /\ xOrigin' = Plus(Plus(xMax, MathAbs(left)), Real(2))
                 /\ left = Zero
                       => /\ Minus(xOrigin', xMax) = Real(2)
                          /\ Less(xMax, xOrigin')]_vars

(* the second subplot, which reaches one unit to the left of its local     *)
(* origin, has begun three units to the right of the box of the first      *)
C24_Witness ==
    /\ status = "plotting"
    /\ subplotK = 1
    /\ position = 0
    /\ subplotV = <<"|", "F">>
    /\ LeftmostOf(subplotV, angle) = Real(-1)
    /\ xOrigin = Plus(xMax, Real(3))
    /\ At(turtle) = <<xOrigin, Zero>>
    /\ Less(Zero, xMax)

DryRunTurn(S) ==
    /\ xoStatus = "walking"
    /\ xoStatus' = "walking"
    /\ xoPos < Len(xoCmds)
    /\ xoCmds[xoPos + 1] \in S
    /\ <<xoCmds, xoPos>>' # <<xoCmds, xoPos>>

DryRunOver == xoStatus = "walking" /\ xoStatus' = "sending"

(* C25 as stated: "[", "]", "{" and "}" leave the turtle of the dry run    *)
(* alone, and the leftmost x it finds is the one of the string without     *)
(* its brackets and braces.                                                *)
C25_DryRunIgnoresBranches ==
    [][/\ DryRunTurn({"[", "]", "{", "}"}) => xoTurtle' = xoTurtle
       /\ DryRunOver
             => xoMin = LeftmostOf(Without(walked, {"[", "]", "{", "}"}),
                                   xoAngle)]_vars

(* C25 amended: "{" and "}" have no effect on the dry run; "[" saves its   *)
(* turtle and "]" gives it back the turtle saved last, as in the           *)
(* interpretation proper; so the leftmost x it finds for a string whose    *)
(* "]" all close a "[" is the one of the string without its braces, with   *)
(* the branches followed.                                                  *)
C25_DryRunIgnoresBraces ==
    [][/\ DryRunTurn({"{", "}"})
             => UNCHANGED <<xoTurtle, xoStack, xoMin>>
       /\ DryRunTurn({"["})
             => /\ xoStack' = Append(xoStack, xoTurtle)
                /\ UNCHANGED <<xoTurtle, xoMin>>
       /\ DryRunTurn({"]"})
             => /\ xoTurtle' = xoStack[Len(xoStack)]
                /\ xoStack' = SubSeq(xoStack, 1, Len(xoStack) - 1)
                /\ xoMin' = xoMin
       /\ (DryRunOver /\ WellBracketed(walked))
             => xoMin = LeftmostOf(Without(walked, {"{", "}"}), xoAngle)
      ]_vars

(* the dry run of a string with a branch and a polygon is over: the branch *)
(* brought the turtle back, so that the leftmost x is not the one of the   *)
(* string without its brackets                                             *)
C25_Witness ==
    /\ xoStatus = "sending"
    /\ {"[", "]", "{", "}"} \subseteq Range(xoCmds)
    /\ Less(xoMin, Zero)
    /\ xoMin = LeftmostOf(xoCmds, xoAngle)
    /\ xoMin # LeftmostOf(Without(xoCmds, {"[", "]"}), xoAngle)

(* ================== properties of the pen-plotter stream ================ *)
(* The stream of logo2Hpgl is the sequence plotCmds of the pieces that     *)
(* convert2Hpgl returned: "PU" and "PD" begin a pen command, ";PU" and     *)
(* ";PD" end the command before them and begin one, "," continues the      *)
(* command with one more coordinate pair, and the polygon pieces end the   *)
(* command before them.                                                    *)
HpglStream == engine = "HpglPlot" /\ status \in {"plotting", "plotted"}

IsMove(c) == c.pts # <<>>

PenBegun(c) ==
    IF c.op \in {"PD", ";PD"} THEN "PD"
    ELSE IF c.op \in {"PU", ";PU"} THEN "PU"
    ELSE ""

(* the pen state of piece i of the stream s: the one of the command it     *)
(* begins or continues, "" for a piece that is no move                     *)
RECURSIVE PenAt(_, _)
PenAt(s, i) ==
    IF i = 0 THEN ""
    ELSE IF s[i].op = "," THEN PenAt(s, i - 1)
    ELSE PenBegun(s[i])

(* the last move before piece i, 0 when there is none *)
PrevMove(s, i) == Max({0} \cup {j \in 1..(i - 1) : IsMove(s[j])})

HpglEmitters == {"F", "f", "]", "{", "}"}

(* the piece of the stream emitted for the symbol at q (counted from 1) of *)
(* the string s: the stream begins with the pen-up move to the origin      *)
PieceOf(s, q) == 1 + Cardinality({j \in 1..q : s[j] \in HpglEmitters})

(* no command is immediately followed by a command of the same pen state,  *)
(* and an "F" that follows an "F" continues the command of the first       *)
PenCommandsAlternate ==
    /\ \A i \in 2..Len(plotCmds) :
          PenBegun(plotCmds[i]) # ""
             => PenAt(plotCmds, i - 1) # PenBegun(plotCmds[i])
    /\ status = "plotting"
          => /\ Len(plotCmds) = PieceOf(interpreted, Len(interpreted))
             /\ \A q \in 2..Len(interpreted) :
                   (interpreted[q - 1] = "F" /\ interpreted[q] = "F")
                      => /\ plotCmds[PieceOf(interpreted, q)].op = ","
                         /\ PenAt(plotCmds, PieceOf(interpreted, q)) = "PD"

RunFrom(e, cmds, pos, t, st, b, out, poly, pen, a) ==
    LET c == [ok |-> "ok", cmds |-> cmds, pos |-> pos, turtle |-> t,
              stack |-> st, box |-> b, out |-> out]
    IN  IF e \in {"Plot", "MultiPlot"}
        THEN logo2GnuplotRun(c @@ [polygon |-> poly], a)
        ELSE logo2HpglRun(c @@ [penCmdPrev |-> pen], a)

(* what the closure returns, and the string it leaves *)
Returned(r) == [ok |-> r.ok, cmds |-> r.cmds, out |-> r.out, box |-> r.box]

RunLeft ==
    Returned(RunFrom(engine,
                     IF engine \in MultiEngines THEN subplotV ELSE TurtleCmds,
                     position, turtle, stack, Box, plotCmds, polygon,
                     penCmdPrev, angle))

RunLeftNext ==
    Returned(RunFrom(engine',
                     IF engine' \in MultiEngines THEN subplotV'
                     ELSE TurtleCmds',
                     position', turtle', stack',
                     [xMin |-> xMin', xMax |-> xMax', yMin |-> yMin',
                      yMax |-> yMax'],
                     plotCmds', polygon', penCmdPrev', angle'))

(* the next turn of the dry run of calcXoffset ends the process *)
DryRunFails ==
    /\ xoStatus = "walking"
    /\ xoPos < Len(xoCmds)
    /\ calcXoffsetTurn(xoCmds, xoPos, xoTurtle, xoStack, xoMin, xoAngle).ok
          # "ok"

(* The functions logo2Gnuplot and logo2Hpgl compute what the steps of the  *)
(* closures do: a call begins the run of the function, every step of the   *)
(* loop leaves the run that is left unchanged, a step that ends the        *)
(* process is the end of that run, and the closure returns its result.     *)
ClosuresAreFunctions ==
    [][/\ (status \in {"idle", "starting", "looping"} /\ status' = "plotting")
             => RunLeftNext =
                   Returned(
                     IF engine' = "Plot"
                     THEN logo2Gnuplot(TurtleCmds, Zero, angle', Box)
                     ELSE IF engine' = "HpglPlot"
                     THEN logo2Hpgl(TurtleCmds, Zero, angle', Box)
                     ELSE IF engine' = "MultiPlot"
                     THEN logo2Gnuplot(subplotV, xOrigin, angle', Box)
                     ELSE logo2Hpgl(subplotV, xOrigin, angle', Box))
       /\ status = "plotting"
             => /\ status' = "plotting" => RunLeftNext = RunLeft
                /\ (status' = "halted" /\ ~DryRunFails) => RunLeft.ok = "halt"
                /\ (status' = "panic" /\ ~DryRunFails) => RunLeft.ok = "panic"
                /\ status' \in {"plotted", "receiving"}
                      => /\ RunLeft.ok = "ok"
                         /\ RunLeft.out = plotCmds'
                         /\ RunLeft.box = [xMin |-> xMin', xMax |-> xMax',
                                           yMin |-> yMin', yMax |-> yMax']
                         /\ RunLeft.cmds = IF engine \in MultiEngines
                                           THEN subplotV' ELSE TurtleCmds'
      ]_vars

(* the place of the pen after piece i of the stream s: the last pair       *)
(* emitted                                                                 *)
RECURSIVE PenPlace(_, _)
PenPlace(s, i) ==
    IF i = 0 THEN <<Zero, Zero>>
    ELSE IF IsMove(s[i]) THEN s[i].pts[1]
    ELSE PenPlace(s, i - 1)

(* the pen-down strokes of the stream s, in order: each from the place of  *)
(* the pen before it to its pair                                           *)
HpglStrokes(s) ==
    LET down == SelectSeq([i \in 1..Len(s) |-> i],
                          LAMBDA i : IsMove(s[i]) /\ PenAt(s, i) = "PD")
    IN  [k \in 1..Len(down) |-> <<PenPlace(s, down[k] - 1), s[down[k]].pts[1]>>]

(* the segments of the commands s of logo2Gnuplot, in order *)
GnuplotSegments(s) ==
    LET arrows == SelectSeq(s, LAMBDA c : c.op = "set arrow")
    IN  [k \in 1..Len(arrows) |-> arrows[k].pts]

(* C32: whatever derive and plot calls came before, Plot and HpglPlot draw *)
(* the string the last derive call left: when the closure has returned,    *)
(* the strokes and the bounding box are the ones of the function applied   *)
(* to that string; so HpglPlot after Plot draws what HpglPlot alone draws. *)
C32_PlotsDrawDerived ==
    (status = "plotted" /\ engine \in {"Plot", "HpglPlot"})
       => IF engine = "Plot"
          THEN LET r == logo2Gnuplot(derived, Zero, angle, ZeroBox)
               IN  /\ r.ok = "ok"
                   /\ GnuplotSegments(plotCmds) = GnuplotSegments(r.out)
                   /\ Box = r.box
          ELSE LET r == logo2Hpgl(derived, Zero, angle, ZeroBox)
               IN  /\ r.ok = "ok"
                   /\ HpglStrokes(plotCmds) = HpglStrokes(r.out)
                   /\ Box = r.box

(* origins and boxes a closure is called with: Plot and HpglPlot call it   *)
(* at 0 with the box (0, 0, 0, 0), MultiPlot and HpglMultiPlot at the      *)
(* origin of the subplot with the box of the subplots before it            *)
EmitOrigins == {Zero, Real(3)}

EmitBoxes == {ZeroBox, [ZeroBox EXCEPT !.xMax = One, !.yMin = Real(-1)]}

PolygonFree(s) == Range(s) \cap {"{", "}"} = {}

EmittersAgreeOn(s) ==
    \A a \in PlotAngles \ {0}, o \in EmitOrigins, b \in EmitBoxes :
       LET g == logo2Gnuplot(s, o, a, b)
           h == logo2Hpgl(s, o, a, b)
       IN  /\ g.ok = h.ok
           /\ g.ok = "ok"
                 => /\ HpglStrokes(h.out) = GnuplotSegments(g.out)
                    /\ h.box = g.box
                    /\ h.cmds = g.cmds

(* C33: for a string without polygon, the pen-down strokes of the stream   *)
(* of logo2Hpgl, each from the place of the pen before it, are the line    *)
(* segments of logo2Gnuplot in the same order, and the two closures return *)
(* the same bounding box, whatever the origin and the angle; the closures  *)
(* being the functions that the steps of the model compute.                *)
C33_EmittersAgree ==
    /\ ClosuresAreFunctions
    /\ [](PolygonFree(TurtleCmds) => EmittersAgreeOn(TurtleCmds))

(* HpglPlot has returned for a string with branches and a non-drawing      *)
(* move: its strokes are the segments logo2Gnuplot emits for the string,   *)
(* and fewer than its moves                                                *)
C33_Witness ==
    /\ status = "plotted"
    /\ engine = "HpglPlot"
    /\ {"[", "]", "f", "F"} \subseteq Range(TurtleCmds)
    /\ Len(HpglStrokes(plotCmds)) >= 3
    /\ Len(HpglStrokes(plotCmds)) < Cardinality({i \in 1..Len(plotCmds) :
                                                    IsMove(plotCmds[i])}) - 1
    /\ HpglStrokes(plotCmds) =
          GnuplotSegments(logo2Gnuplot(derived, Zero, angle, ZeroBox).out)

(* ---------------- properties of the multi-plot handoff ----------------- *)
(* calcXoffset between the receipt of the angle and the send of the        *)
(* offset, as a function of the string, the angle and what the coroutine   *)
(* keeps from the request before: r is the record of calcXoffsetTurn      *)
RECURSIVE calcXoffsetRun(_, _)
calcXoffsetRun(r, a) ==
    IF r.ok # "ok" \/ r.pos >= Len(r.cmds) THEN r
    ELSE calcXoffsetRun(calcXoffsetTurn(r.cmds, r.pos, r.turtle, r.stack,
                                        r.xMin, a), a)

(* the walk of calcXoffset over the commands of one request: the turtle    *)
(* and the stack are the ones the request before left, but for the heading *)
(* and the x ordinate                                                      *)
calcXoffset(cmds, a, t, st) ==
    calcXoffsetRun([ok |-> "ok", cmds |-> removePointlessTurns(cmds),
                    pos |-> 0,
                    turtle |-> [t EXCEPT !.HEADING = 0, !.X = Zero],
                    stack |-> st, xMin |-> Zero], a)

(* the walk that is left from the state of the coroutine *)
xoRunFrom(cmds, pos, t, st, xm, a) ==
    calcXoffsetRun([ok |-> "ok", cmds |-> cmds, pos |-> pos, turtle |-> t,
                    stack |-> st, xMin |-> xm], a)

MultiRunning ==
    engine \in MultiEngines /\ status \notin {"idle", "halted", "panic"}

(* k rounds of a request and its reply *)
Rounds(k) ==
    Flatten([i \in 1..k |-> <<"commands", "productionAngle", "xOffset">>])

(* what the round under way has handed over *)
RoundUnderWay ==
    CASE status = "sendAngle" -> <<"commands">>
      [] /\ status \in {"starting", "plotting", "receiving"}
         /\ subplotK + 1 < Len(turtleCmds) -> <<"commands", "productionAngle">>
      [] OTHER -> <<>>

(* the two routines wait for each other only where the other one arrives  *)
HandoffInStep ==
    /\ MultiRunning => ENABLED <<MultiNext>>_vars
    /\ MultiRunning => handoffs = Rounds(subplotK) \o RoundUnderWay
    /\ (MultiRunning /\ xoStatus \in {"walking", "sending"})
          => /\ status \in {"starting", "plotting", "receiving"}
             /\ subplotK + 1 < Len(turtleCmds)
    /\ (MultiRunning /\ status = "receiving") => xoStatus \in {"walking", "sending"}
    /\ (MultiRunning /\ status = "plotted")
          => /\ xoStatus = "waiting"
             /\ handoffs = Rounds(Len(turtleCmds) - 1)

(* C35: in MultiPlot and HpglMultiPlot with N subplots the main routine    *)
(* and calcXoffset never wait for each other for ever: a routine that is   *)
(* running can always take a step; N-1 requests of commands and angle are  *)
(* sent, each followed by the receipt of its offset; the offset received   *)
(* after subplot k is the one calcXoffset computes from the commands and   *)
(* the angle of subplot k+1; when the loop is over no offset waits to be   *)
(* read and the coroutine waits for commands, so that the close of the     *)
(* channel ends it.                                                        *)
C35_MultiHandoff ==
    /\ []HandoffInStep
    /\ [][/\ (status = "sendAngle" /\ status' = "starting")
             => /\ xoCmds' = removePointlessTurns(turtleCmds[subplotK + 2])
                /\ xoAngle' = turtleAngles[subplotK + 2]
                /\ xoRunFrom(xoCmds', xoPos', xoTurtle', xoStack', xoMin',
                             xoAngle')
                     = calcXoffset(turtleCmds[subplotK + 2],
                                   turtleAngles[subplotK + 2], xoTurtle,
                                   xoStack)
          /\ (MultiRunning /\ xoStatus = "walking"
                /\ status' \notin {"halted", "panic"})
             => /\ xoRunFrom(xoCmds', xoPos', xoTurtle', xoStack', xoMin',
                             xoAngle')
                     = xoRunFrom(xoCmds, xoPos, xoTurtle, xoStack, xoMin,
                                 xoAngle)
                /\ xoStatus' = "sending"
                      => xoRunFrom(xoCmds, xoPos, xoTurtle, xoStack, xoMin,
                                   xoAngle).xMin = xoMin'
          /\ (status = "receiving" /\ status' = "looping")
             => /\ xoStatus = "sending"
                /\ xOrigin' = Plus(xMax, xOffsetOf(xoMin))
                /\ xoStatus' = "waiting"
          /\ (MultiRunning /\ status' = "idle")
             => status = "plotted" /\ xoStatus' = "off"]_vars

(* the loop over three subplots is over: two requests went out, two        *)
(* offsets came back and the coroutine waits for commands                  *)
C35_Witness ==
    /\ status = "plotted"
    /\ Len(turtleCmds) = 3
    /\ handoffs = Rounds(2)
    /\ xoStatus = "waiting"

(* ------------- the dry run and the interpretation proper --------------- *)
(* subplot k of the call as the closure of the call compiles it *)
SubplotCompiled(k) ==
    IF engine = "MultiPlot"
    THEN logo2Gnuplot(turtleCmds[k], Zero, turtleAngles[k], ZeroBox)
    ELSE logo2Hpgl(turtleCmds[k], Zero, turtleAngles[k], ZeroBox)

(* stacks the requests before may have left to calcXoffset *)
StaleStacks ==
    {<<>>, <<_turtleStatus(180, Real(-7), Zero)>>,
     <<_turtleStatus(0, Zero, Zero), _turtleStatus(90, Real(-3), Zero)>>}

(* the dry run of subplot k, with what the requests before left *)
DryRun(k, st) ==
    calcXoffset(turtleCmds[k], turtleAngles[k],
                _turtleStatus(0, Zero, Zero), st)

(* the interpretation of a subplot returns *)
SubplotReturns ==
    /\ engine \in MultiEngines
    /\ status = "plotting"
    /\ status' \in {"receiving", "plotted"}

(* C36: for every subplot whose interpretation returns, the leftmost x     *)
(* the dry run of calcXoffset finds from the local origin 0 is the least x *)
(* among the origin and the positions of the turtle of the interpretation, *)
(* less the origin of the subplot; and the dry run that ran for a subplot  *)
(* whose interpretation succeeds found that x.                             *)
C36_DryRunAgrees ==
    [][/\ SubplotReturns
          => \A st \in StaleStacks \cup {xoStack} :
                /\ DryRun(subplotK + 1, st).ok = "ok"
                /\ DryRun(subplotK + 1, st).xMin
                     = Minus(MinOf(visitedX), xOrigin)
       /\ (/\ MultiRunning
           /\ xoStatus = "walking"
           /\ xoStatus' = "sending"
           /\ SubplotCompiled(subplotK + 2).ok = "ok")
          => xoMin' = DryRun(subplotK + 2, <<>>).xMin
       /\ (SubplotReturns /\ subplotK > 0)
          => xOrigin \in visitedX]_vars

(* the interpretation of the second subplot, which holds a branch, is     *)
(* about to return: its turtle went left of the origin of the subplot      *)
C36_Witness ==
    /\ engine \in MultiEngines
    /\ status = "plotting"
    /\ subplotK = 1
    /\ position >= Len(subplotV)
    /\ Count(interpreted, "[") = 1
    /\ Less(MinOf(visitedX), xOrigin)

(* ------------ HogewegHesper: symbols without a context ----------------- *)
(* what a sweep of HogewegHesper puts in newCmds for the symbol at p, read *)
(* off the sweep: the part of the sweep from p that the sweep from p+1     *)
(* does not account for                                                    *)
SweepPiece(cmds, r, p) ==
    LET from == HogewegHesperSweep(cmds, r, p).cmds
        rest == HogewegHesperSweep(cmds, r, p + 1).cmds
    IN  SubSeq(from, 1, Len(from) - Len(rest))

(* the table with a rule for each of the eight keys *)
HHFull ==
    [k \in {Context(<<l>>, <<a>>, <<r>>) :
               l \in HHVariables, a \in HHVariables, r \in HHVariables}
        |-> <<"F", k[1], k[9]>>]

(* the searches of the code find no context on one side of p *)
NoContextAt(s, p) ==
    /\ s[p] \in HHVariables
    /\ \/ getContextLHS(SubSeq(s, 1, p - 1)).context = <<>>
       \/ getContextRHS(Drop(s, p)).context = <<>>

(* p is the first 0/1 of s, or the last 0/1 of its branch or of the string *)
FirstOrLastVariable(s, p) ==
    /\ s[p] \in HHVariables
    /\ \/ \A q \in 1..(p - 1) : s[q] \notin HHVariables
       \/ RightContextOf(s, p) = <<>>

(* C37: a 0/1 for which one of the two searches finds no context is copied *)
(* by the generation, whatever the table, one with a rule for every key    *)
(* included, since no key that passes the check has an empty side; so are  *)
(* the first 0/1 of the string and the last 0/1 of every branch.           *)
C37_NoContextNoRewrite ==
    [][(status = "running" /\ engine = "HogewegHesper" /\ n' = n + 1)
          => /\ \A k \in DOMAIN ruleMap : Len(k) = 9 /\ k[1] # " " /\ k[9] # " "
             /\ \A p \in 1..Len(TurtleCmds) :
                   (NoContextAt(TurtleCmds, p)
                       \/ FirstOrLastVariable(TurtleCmds, p))
                      => /\ SweepPiece(TurtleCmds, ruleMap, p)
                              = <<TurtleCmds[p]>>
                         /\ SweepPiece(TurtleCmds, HHFull, p)
                              = <<TurtleCmds[p]>>
             /\ TurtleCmds' =
                   Flatten([p \in 1..Len(TurtleCmds) |->
                               SweepPiece(TurtleCmds, ruleMap, p)])]_vars

(* the first generation of "111" with the table of demo3: the 1 in the     *)
(* middle became 0 by the rule 1 < 1 > 1, the first and the last 1, which  *)
(* have a 1 on one side only, were copied                                  *)
C37_Witness ==
    /\ status = "running"
    /\ engine = "HogewegHesper"
    /\ ruleMap = HHDemo3
    /\ axiom = <<"1", "1", "1">>
    /\ n = 2
    /\ TurtleCmds = <<"1", "0", "1">>

(* ---------------- HogewegHesper: balanced brackets --------------------- *)
(* every "]" of s closes a "[" of s and every "[" is closed *)
BalancedBrackets(s) ==
    WellBracketed(s) /\ OpenBrackets(s, Len(s)) = 0

BalancedCall ==
    /\ status = "running"
    /\ engine = "HogewegHesper"
    /\ BalancedBrackets(axiom)
    /\ \A k \in DOMAIN ruleMap : BalancedBrackets(ruleMap[k])

(* the requests HogewegHesper makes for the 0/1 at p of s *)
RequestsAt(s, p) ==
    {getContextLHS(SubSeq(s, 1, p - 1)), getContextRHS(Drop(s, p))}

(* C38: when the axiom and the replacements of the table have balanced     *)
(* brackets, so has every generation; no search for the context of a 0/1   *)
(* of a generation leaves the string it was given (no index out of range), *)
(* and a search that returns, as every search does in a string of          *)
(* supported symbols, returns "", "0" or "1"; no generation ends in an     *)
(* index out of range.                                                     *)
C38_BalancedStaysBalanced ==
    /\ [](BalancedCall
            => /\ BalancedBrackets(TurtleCmds)
               /\ \A p \in 1..Len(TurtleCmds) :
                     TurtleCmds[p] \in HHVariables
                        => \A res \in RequestsAt(TurtleCmds, p) :
                              /\ res.status # "panic"
                              /\ res.status = "ok"
                                    => res.context
                                          \in {<<>>, <<"0">>, <<"1">>}
                              /\ Range(TurtleCmds) \subseteq HHSupported
                                    => res.status = "ok")
    /\ [][BalancedCall => status' # "panic"]_vars

(* a generation of "111" with the table of nested branches: the brackets  *)
(* of the generation come from a replacement, and the searches in it skip  *)
(* a branch within a branch                                                *)
C38_Witness ==
    /\ BalancedCall
    /\ n >= 2
    /\ ruleMap = HHNest
    /\ Count(axiom, "[") = 0
    /\ Count(TurtleCmds, "[") >= 2
    /\ getContextLHS(SubSeq(TurtleCmds, 1, Len(TurtleCmds) - 2)).context
          = <<"1">>

(* ------------------ the loops over the symbols end --------------------- *)
(* one turn of a loop over the symbols, from the string cmds read up to    *)
(* pos to the string next read up to posNext: the turn goes past one       *)
(* constant, or past a heading declaration up to its ")", or deletes the   *)
(* variable at pos, every occurrence of it, and stays; a ")" met outside a  *)
(* declaration is deleted as a variable is                                 *)
TurnAdvances(cmds, pos, next, posNext) ==
    LET symbol == cmds[pos + 1]
        cases  == TurtleConstants \ {")"}
    IN  \/ /\ symbol \in cases \ {"("}
           /\ next = cmds
           /\ posNext = pos + 1
        \/ /\ symbol = "("
           /\ next = cmds
           /\ posNext > pos + 1
           /\ cmds[posNext] = ")"
           /\ \A i \in (pos + 2)..(posNext - 1) : cmds[i] # ")"
        \/ /\ symbol \notin cases
           /\ posNext = pos
           /\ Len(next) < Len(cmds)
           /\ next = Without(cmds, {symbol})

(* what is left to read *)
Unread(cmds, pos) == IF pos >= Len(cmds) THEN 0 ELSE Len(cmds) - pos

(* the turns taken and the symbols left to read are no more than the       *)
(* symbols of the normalized string the loop began with                    *)
TurnsBounded ==
    /\ (engine \in MultiEngines /\ status = "plotting")
          => turns + Unread(subplotV, position)
                <= Len(removePointlessTurns(turtleCmds[subplotK + 1]))
    /\ (MultiRunning /\ xoStatus \in {"walking", "sending"})
          => xoTurns + Unread(xoCmds, xoPos)
                <= Len(removePointlessTurns(turtleCmds[subplotK + 2]))

HandoffRunning == status = "running" /\ hhPc # "off"

(* k rounds of two requests and their replies, the left reply first *)
ContextRounds(k) ==
    Flatten([i \in 1..k |->
                <<"chan4LHS<-", "chan4RHS<-", "<-chan4LHS", "<-chan4RHS">>])

(* what the round under way has handed over *)
ContextRoundUnderWay ==
    CASE hhPc = "sendRHS" -> <<"chan4LHS<-">>
      [] hhPc = "recvLHS" -> <<"chan4LHS<-", "chan4RHS<-">>
      [] hhPc = "recvRHS" -> <<"chan4LHS<-", "chan4RHS<-", "<-chan4LHS">>
      [] OTHER -> <<>>

(* the 0/1 among the symbols the main routine has gone past *)
VariablesPast ==
    Cardinality({p \in 1..hhPos :
                    p <= Len(TurtleCmds) /\ TurtleCmds[p] \in {"0", "1"}})

HandoffSafe ==
    /\ HandoffRunning => ENABLED <<HandoffProgress>>_vars
    /\ HandoffRunning
          => handoffs = ContextRounds(VariablesPast) \o ContextRoundUnderWay
    /\ coLHS.pc \in {"search", "send"}
          => HandoffRunning /\ hhPc \in {"sendRHS", "recvLHS"}
    /\ coRHS.pc \in {"search", "send"}
          => HandoffRunning /\ hhPc \in {"recvLHS", "recvRHS"}
    /\ hhPc \in {"loop", "sendRHS", "recvLHS", "recvRHS"}
          => chan4LHS = "open" /\ chan4RHS = "open"
    /\ chan4LHS = "closed"
          => coLHS.pc \in {"range", "done"} /\ hhPc \in {"closeRHS", "return", "off"}
    /\ chan4RHS = "closed"
          => coRHS.pc \in {"range", "done"} /\ hhPc \in {"return", "off"}

(* C34: the handoff of HogewegHesper with its two coroutines never comes   *)
(* to a stop: a call under way always has a step to take, and it ends.     *)
(* Each request is followed by one reply, found by the search of the       *)
(* string of that request; the reply of getContextLHS is received before   *)
(* the reply of getContextRHS; no routine sends on a channel that is       *)
(* closed; a coroutine whose channel is closed returns; and a generation   *)
(* is what the sweep that calls the two searches as functions gives, or    *)
(* ends the process as that sweep does.                                    *)
C34_ContextHandoff ==
    /\ []HandoffSafe
    /\ [][/\ (hhPc = "recvLHS" /\ hhPc' = "recvRHS")
             => /\ coLHS.arg = SubSeq(TurtleCmds, 1, hhPos)
                /\ contextLHS' = getContextLHS(coLHS.arg).context
          /\ (hhPc = "recvRHS" /\ hhPc' = "loop")
             => /\ coRHS.arg = Drop(TurtleCmds, hhPos + 1)
                /\ coRHS.context = getContextRHS(coRHS.arg).context
                /\ contextLHS
                     = getContextLHS(SubSeq(TurtleCmds, 1, hhPos)).context
          /\ (HandoffRunning /\ n' = n + 1)
             => LET res == HogewegHesperSweep(TurtleCmds, ruleMap, 1)
                IN  res.fails = {} /\ TurtleCmds' = res.cmds
          /\ (HandoffRunning /\ status' \in {"halted", "panic"})
             => status' \in HogewegHesperSweep(TurtleCmds, ruleMap, 1).fails
          /\ (HandoffRunning /\ status' = "idle")
             => n > order /\ chan4LHS = "closed" /\ chan4RHS = "closed"
         ]_vars
    /\ HandoffRunning ~> ~HandoffRunning
    /\ (chan4LHS = "closed") ~> (coLHS.pc \in {"done", "off"})
    /\ (chan4RHS = "closed") ~> (coRHS.pc \in {"done", "off"})

(* in the second generation of a call with the table of demo3 the main     *)
(* routine has the reply of getContextLHS and getContextRHS is ready to    *)
(* send its own, after a round that was completed                          *)
C34_Witness ==
    /\ HandoffRunning
    /\ ruleMap = HHDemo3
    /\ n = 2
    /\ hhPc = "recvRHS"
    /\ coRHS.pc = "send"
    /\ contextLHS = <<"1">>
    /\ coRHS.context = <<"1">>
    /\ Len(handoffs) >= 7

====
